---- MODULE Spec2Model ----
(***************************************************************************)
(* Filter coordination protocol of dc.js BaseMixin                         *)
(* (src/src/base/base-mixin.ts): the chart's filter list, the pluggable    *)
(* filter handlers, the push of the list to the crossfilter dimension,     *)
(* the `filtered` notification and the reset / filter-info controls.       *)
(*                                                                         *)
(* JavaScript values are modelled as records, arrays live in a heap so     *)
(* that aliasing of the filter list is observable, and every public        *)
(* method is one action that records what it did in `trace`.               *)
(***************************************************************************)
EXTENDS Integers, Sequences, FiniteSets, TLC

(***************************************************************************)
(* Bounds of the model.                                                    *)
(***************************************************************************)
\* longest filter list a caller is allowed to build
MaxFilters == 3
\* longest inner array of a filter([[v1,...,vn]]) call
MaxToggle == 2

(***************************************************************************)
(* JavaScript values.  t is the type tag; an array carries its elements in *)
(* e and, when it is a dc filter object (an array with isFiltered blessed  *)
(* onto it), its filterType in ft.  Strings are sequences of char codes.   *)
(***************************************************************************)
Num(n) == [t |-> "num", n |-> n, s |-> <<>>, e |-> <<>>, ft |-> "none"]
Str(s) == [t |-> "str", n |-> 0, s |-> s, e |-> <<>>, ft |-> "none"]
Arr(e) == [t |-> "arr", n |-> 0, s |-> <<>>, e |-> e, ft |-> "none"]
FilterObj(e, ft) == [t |-> "arr", n |-> 0, s |-> <<>>, e |-> e, ft |-> ft]
Null == [t |-> "null", n |-> 0, s |-> <<>>, e |-> <<>>, ft |-> "none"]
Undefined == [t |-> "undefined", n |-> 0, s |-> <<>>, e |-> <<>>, ft |-> "none"]

\* filter.isFiltered is truthy exactly for the dc filter objects
HasIsFiltered(v) == v.t = "arr" /\ v.ft # "none"

\* decimal digits of a natural number, as char codes ('0' is 48)
RECURSIVE Digits(_)
Digits(n) == IF n < 10 THEN <<48 + n>> ELSE Digits(n \div 10) \o <<48 + (n % 10)>>

\* Array.prototype.join(','): ',' is char code 44
RECURSIVE Join(_)
Join(ss) ==
    IF Len(ss) = 0 THEN <<>>
    ELSE IF Len(ss) = 1 THEN ss[1]
    ELSE ss[1] \o <<44>> \o Join(Tail(ss))

\* ToString of a value; inside Array.prototype.join null and undefined give ''
RECURSIVE ToStr(_)
ToStr(v) ==
    CASE v.t = "num" -> Digits(v.n)
      [] v.t = "str" -> v.s
      [] v.t = "arr" -> Join([i \in 1..Len(v.e) |->
                                IF v.e[i].t \in {"null", "undefined"} THEN <<>> ELSE ToStr(v.e[i])])
      [] v.t = "null" -> <<110, 117, 108, 108>>
      [] OTHER -> <<117, 110, 100, 101, 102, 105, 110, 101, 100>>

IsDigit(c) == c >= 48 /\ c <= 57

RECURSIVE DigitsValue(_)
DigitsValue(s) == IF Len(s) = 0 THEN 0 ELSE 10 * DigitsValue(SubSeq(s, 1, Len(s) - 1)) + (s[Len(s)] - 48)

\* ToNumber of a string: <<n>> for a number, <<>> for NaN
StringToNumber(s) == IF \A i \in 1..Len(s) : IsDigit(s[i]) THEN <<DigitsValue(s)>> ELSE <<>>

\* ToPrimitive with hint number: arrays have no numeric valueOf, so they stringify
ToPrimitive(v) == IF v.t = "arr" THEN Str(ToStr(v)) ELSE v

\* ToNumber of a primitive: <<n>> for a number, <<>> for NaN
ToNumber(p) ==
    CASE p.t = "num" -> <<p.n>>
      [] p.t = "str" -> StringToNumber(p.s)
      [] p.t = "null" -> <<0>>
      [] OTHER -> <<>>

\* lexicographic comparison of two strings by code unit: a < b
RECURSIVE StrLess(_, _)
StrLess(a, b) ==
    IF Len(b) = 0 THEN FALSE
    ELSE IF Len(a) = 0 THEN TRUE
    ELSE IF a[1] # b[1] THEN a[1] < b[1]
    ELSE StrLess(Tail(a), Tail(b))

\* the JavaScript relational operators a <= b and a >= b
JsLte(a, b) ==
    LET pa == ToPrimitive(a)
        pb == ToPrimitive(b)
    IN IF pa.t = "str" /\ pb.t = "str" THEN ~StrLess(pb.s, pa.s)
       ELSE LET na == ToNumber(pa)
                nb == ToNumber(pb)
            IN na # <<>> /\ nb # <<>> /\ na[1] <= nb[1]

JsGte(a, b) == JsLte(b, a)


(***************************************************************************)
(* Filter values used as inputs.  'a' = 97, 'b' = 98, '1' = 49.            *)
(*   1, '1'                  a number and the string it coerces to         *)
(*   ['a','b']               a plain path array (sunburst click datum)     *)
(*   HierarchyFilter(a,b)    the same path as a dc filter object           *)
(*   RangedFilter(1,2)       a range filter object                         *)
(***************************************************************************)
Values ==
    { Num(1), Str(<<49>>),
      Arr(<<Str(<<97>>), Str(<<98>>)>>),
      FilterObj(<<Str(<<97>>), Str(<<98>>)>>, "HierarchyFilter"),
      FilterObj(<<Num(1), Num(2)>>, "RangedFilter") }

\* the values that appear inside a filter([[...]]) call
ToggleValues == { Num(1), FilterObj(<<Str(<<97>>), Str(<<98>>)>>, "HierarchyFilter") }

SeqsUpTo(S, n) == UNION { [1..k -> S] : k \in 0..n }

\* [[v1,...,vn]]: an array whose sole element is an array of values
ToggleLists == { Arr(<<Arr(s)>>) : s \in SeqsUpTo(ToggleValues, MaxToggle) }

FilterArgs == {Null} \cup Values \cup ToggleLists

(***************************************************************************)
(* The heap of JavaScript arrays that can hold a filter list.  A reference *)
(* is an index into the heap; NoRef is the absence of a reference.         *)
(***************************************************************************)
ArrayIds == 1..4
NoRef == 0

\* the kinds of object configure({dimension: ...}) may be given
Dimensions == {"undefined", "noFilter", "crossfilter"}

\* the functions filterHandler(fn) may be given
FilterHandlers == {"default", "noReturn", "keepLast"}

NoCall == [call |-> "none", arg |-> <<>>]

VARIABLES
    heap,            \* contents of every array: [ArrayIds -> Seq(value)]
    _filters,        \* this._filters: reference to the chart's filter list
    held,            \* the reference a caller obtained from filters(), or NoRef
    dimension,       \* this._conf.dimension
    dimFilter,       \* the filter call the crossfilter dimension received last
    _filterHandler,  \* this._filterHandler
    _anchor,         \* this._anchor
    _root,           \* this._root
    _isChild,        \* this._isChild
    _chartGroup,     \* this._chartGroup
    registry,        \* the chart groups this chart is registered in
    chartClass,      \* whether the anchor element carries constants.CHART_CLASS
    controls,        \* display state of the .reset / .filter elements under the root
    lastOp,          \* the public method that ran last, with its argument
    pre,             \* history: the filter list before that method ran
    ret,             \* what that method returned
    trace,           \* what that method did, in order
    _group,          \* this._group
    _mandatoryAttributesList,   \* this._mandatoryAttributesList
    _transitionDuration,        \* this._transitionDuration
    _svg,            \* this._svg
    _legend,         \* this._legend
    _width,          \* this._width: the cached width
    _height,         \* this._height: the cached height
    history,         \* one entry per render()/redraw() call: its steps so far
    pending,         \* the calls whose transition has not ended yet
    _commitHandler,  \* this._commitHandler
    commits,         \* one entry per renderGroup()/redrawGroup() call
    chartType,       \* the class of the chart: BaseMixin, or a chart built on it
    _ordering,       \* this._ordering
    data,            \* the records _computeOrderedGroups was given last
    ordered,         \* what _computeOrderedGroups returned last
    _ringSizes,      \* the ring-size policy of a sunburst chart
    classes,         \* the selected / deselected classes of the drawn nodes
    _widthCalc,      \* this._widthCalc
    _heightCalc,     \* this._heightCalc
    boundingClientRect,  \* getBoundingClientRect() of the element under the root
    box,             \* the sorted values of the box drawn last, with their quartiles
    whiskerIndices   \* what this._whiskers returned for them

\* the fields and histories of the render/redraw lifecycle
lifecycle == <<_group, _mandatoryAttributesList, _transitionDuration, _svg, _legend,
               _width, _height, history, pending, _commitHandler, commits>>

\* the fields of the filter protocol
filterState == <<heap, _filters, held, dimension, dimFilter, _filterHandler, controls>>

\* the values of a box and their whiskers
boxState == <<box, whiskerIndices>>

\* the size calculators and the element they measure
sizeState == <<_widthCalc, _heightCalc, boundingClientRect>>

\* what the chart draws from and what it has drawn
drawState == <<chartType, _ordering, data, ordered, _ringSizes, classes, sizeState, boxState>>

\* the fields anchor() and chartGroup() write
anchorState == <<_anchor, _root, _isChild, _chartGroup, registry, chartClass>>

vars == <<heap, _filters, held, dimension, dimFilter, _filterHandler,
          _anchor, _root, _isChild, _chartGroup, registry, chartClass, drawState, controls,
          lastOp, pre, ret, trace, lifecycle>>

\* the chart's filter list, by content
Filters == heap[_filters]

(***************************************************************************)
(* The default handlers, lines 29-78.                                      *)
(***************************************************************************)
\* every list of one entry goes to filterExact
FilterHandlerExactForOne(filters) ==
    IF Len(filters) = 0 THEN [call |-> "filter", arg |-> <<>>]
    ELSE IF Len(filters) = 1 THEN [call |-> "filterExact", arg |-> filters]
    ELSE [call |-> "filterFunction", arg |-> filters]

\* the dimension call issued by _defaultFilterHandler for a list
_defaultFilterHandler(filters) ==
    IF Len(filters) = 0 THEN [call |-> "filter", arg |-> <<>>]
    ELSE IF Len(filters) = 1 /\ ~HasIsFiltered(filters[1]) THEN [call |-> "filterExact", arg |-> filters]
    ELSE IF Len(filters) = 1 /\ filters[1].ft = "RangedFilter" THEN [call |-> "filterRange", arg |-> filters]
    ELSE [call |-> "filterFunction", arg |-> filters]

\* the JavaScript relational operator a < b
JsLt(a, b) ==
    LET pa == ToPrimitive(a)
        pb == ToPrimitive(b)
    IN IF pa.t = "str" /\ pb.t = "str" THEN StrLess(pa.s, pb.s)
       ELSE LET na == ToNumber(pa)
                nb == ToNumber(pb)
            IN na # <<>> /\ nb # <<>> /\ na[1] < nb[1]

\* filter.isFiltered(d) of the dc filter objects: a HierarchyFilter accepts
\* the keys that start with its path, a RangedFilter the keys in [lo, hi)
isFiltered(f, d) ==
    IF f.ft = "HierarchyFilter"
    THEN /\ d.t = "arr"
         /\ Len(f.e) > 0
         /\ Len(d.e) >= Len(f.e)
         /\ \A i \in 1..Len(f.e) : d.e[i] = f.e[i]
    ELSE JsGte(d, f.e[1]) /\ JsLt(d, f.e[2])

\* the loop of the predicate, lines 39-50, from index i on
RECURSIVE PredicateFrom(_, _, _)
PredicateFrom(filters, i, d) ==
    IF i > Len(filters) THEN FALSE
    ELSE IF HasIsFiltered(filters[i])
         THEN IF isFiltered(filters[i], d) THEN TRUE ELSE PredicateFrom(filters, i + 1, d)
         ELSE IF JsLte(filters[i], d) /\ JsGte(filters[i], d) THEN TRUE
              ELSE PredicateFrom(filters, i + 1, d)

\* the loop returns what the first filter says
PredicateOfFirst(filters, d) == PredicateFrom(SubSeq(filters, 1, 1), 1, d)

\* the predicate d => ... handed to dimension.filterFunction, lines 38-52
filterFunctionPredicate(filters, d) == PredicateFrom(filters, 1, d)

\* filter <= f alone, without filter >= f
HasLteOnly(filters, filter) ==
    IF filter.t \in {"null", "undefined"} THEN Len(filters) > 0
    ELSE \E i \in 1..Len(filters) : JsLte(filter, filters[i])

\* a null or undefined query is compared with the entries like any value
HasComparesNull(filters, filter) ==
    \E i \in 1..Len(filters) : JsLte(filter, filters[i]) /\ JsGte(filter, filters[i])

_defaultHasFilterHandler(filters, filter) ==
    IF filter.t \in {"null", "undefined"} THEN Len(filters) > 0
    ELSE \E i \in 1..Len(filters) : JsLte(filter, filters[i]) /\ JsGte(filter, filters[i])

\* filters.splice(i, 1)
Splice1(filters, i) == SubSeq(filters, 1, i - 1) \o SubSeq(filters, i + 1, Len(filters))

\* filters.splice(i) instead of filters.splice(i, 1)
RemoveToEnd(filters, filter) ==
    LET hits == { i \in 1..Len(filters) : JsLte(filters[i], filter) /\ JsGte(filters[i], filter) }
    IN IF hits = {} THEN filters
       ELSE SubSeq(filters, 1, (CHOOSE i \in hits : \A j \in hits : i <= j) - 1)

\* filters[i] < filter && filters[i] > filter: no entry ever matches
RemoveStrict(filters, filter) ==
    LET hits == { i \in 1..Len(filters) : ~JsGte(filters[i], filter) /\ ~JsLte(filters[i], filter) }
    IN IF hits = {} THEN filters
       ELSE Splice1(filters, CHOOSE i \in hits : \A j \in hits : i <= j)

_defaultRemoveFilterHandler(filters, filter) ==
    LET hits == { i \in 1..Len(filters) : JsLte(filters[i], filter) /\ JsGte(filters[i], filter) }
    IN IF hits = {} THEN filters
       ELSE Splice1(filters, CHOOSE i \in hits : \A j \in hits : i <= j)

\* filters.unshift(filter)
AddAtFront(filters, filter) == <<filter>> \o filters

_defaultAddFilterHandler(filters, filter) == Append(filters, filter)

\* the reset handler hands the list back
ResetKeeps(filters) == filters

_defaultResetFilterHandler(filters) == <<>>


(***************************************************************************)
(* Heap helpers.  A handler that works in place returns the reference it   *)
(* was given; one that builds a new list returns a fresh reference.        *)
(***************************************************************************)
Fresh(live) == CHOOSE i \in ArrayIds \ live : \A j \in ArrayIds \ live : i <= j

\* References are names: once a method has returned, the arrays nothing refers
\* to are dropped and the others renamed, the chart's list to 1 and a different
\* array held by the caller to 2.
RenameRef(r, x) == IF x = NoRef THEN NoRef ELSE IF x = r THEN 1 ELSE 2
Collect(h, r, hd) ==
    [i \in ArrayIds |-> IF i = 1 THEN h[r]
                        ELSE IF i = 2 /\ hd \notin {NoRef, r} THEN h[hd]
                        ELSE <<>>]

\* one entry of a method's trace.  A "filterHandler" entry has the list the
\* handler was given, what it returned (arg) and the dimension filter it left;
\* a "filtered" entry has the listener's argument and what the chart's list
\* and the dimension held when it fired.
Event(ev, arg, list, dim) == [ev |-> ev, arg |-> arg, list |-> list, dim |-> dim]

\* the value is looked up by identity (filter === f)
ToggleStrict(st, f) ==
    IF \E i \in 1..Len(st.h[st.r]) : st.h[st.r][i] = f
    THEN [h |-> [st.h EXCEPT ![st.r] = _defaultRemoveFilterHandler(@, f)], r |-> st.r]
    ELSE [h |-> [st.h EXCEPT ![st.r] = _defaultAddFilterHandler(@, f)], r |-> st.r]

\* one toggle of filter(): lines 1021-1025 and 1030-1034
Toggle(st, f) ==
    IF _defaultHasFilterHandler(st.h[st.r], f)
    THEN [h |-> [st.h EXCEPT ![st.r] = _defaultRemoveFilterHandler(@, f)], r |-> st.r]
    ELSE [h |-> [st.h EXCEPT ![st.r] = _defaultAddFilterHandler(@, f)], r |-> st.r]

\* every element is looked up in the list as it was before the call
RECURSIVE ToggleAgainst(_, _, _)
ToggleAgainst(orig, st, fs) ==
    IF Len(fs) = 0 THEN st
    ELSE ToggleAgainst(orig,
            IF _defaultHasFilterHandler(orig, Head(fs))
            THEN [h |-> [st.h EXCEPT ![st.r] = _defaultRemoveFilterHandler(@, Head(fs))], r |-> st.r]
            ELSE [h |-> [st.h EXCEPT ![st.r] = _defaultAddFilterHandler(@, Head(fs))], r |-> st.r],
            Tail(fs))
ToggleEachStale(st, fs) == ToggleAgainst(st.h[st.r], st, fs)

\* filter[0].forEach(f => toggle f)
RECURSIVE ToggleEach(_, _)
ToggleEach(st, fs) == IF Len(fs) = 0 THEN st ELSE ToggleEach(Toggle(st, Head(fs)), Tail(fs))

\* the reset empties the array it was given (filters.length = 0)
ResetInPlace(st, live) == [h |-> [st.h EXCEPT ![st.r] = <<>>], r |-> st.r]

\* this._resetFilterHandler(filters) with the default handler: a new empty array
Reset(st, live) ==
    LET n == Fresh(live \cup {st.r})
    IN [h |-> [st.h EXCEPT ![n] = _defaultResetFilterHandler(st.h[st.r])], r |-> n]

\* filter instanceof Array && filter[0] instanceof Array && !filter.isFiltered
IsToggleList(filter) ==
    /\ filter.t = "arr"
    /\ Len(filter.e) > 0
    /\ filter.e[1].t = "arr"
    /\ ~HasIsFiltered(filter)

(***************************************************************************)
(* this._filterHandler(dimension, filters): what the installed handler     *)
(* does to the dimension (dim) and what it returns (fs: a reference, or    *)
(* NoRef when it returns nothing).                                         *)
(*   default   _defaultFilterHandler, returns the list it was given        *)
(*   noReturn  a custom handler that filters by predicate, returns nothing *)
(*   keepLast  a custom handler that normalises the list to its newest     *)
(*             entry and returns that as a new array                       *)
(***************************************************************************)
CallFilterHandler(handler, st, live) ==
    LET list == st.h[st.r]
    IN CASE handler = "default" ->
              [h |-> st.h, fs |-> st.r, dim |-> _defaultFilterHandler(list)]
         [] handler = "noReturn" ->
              [h |-> st.h, fs |-> NoRef, dim |-> [call |-> "filterFunction", arg |-> list]]
         [] OTHER ->
              LET n == Fresh(live \cup {st.r})
                  kept == IF Len(list) = 0 THEN <<>> ELSE <<list[Len(list)]>>
              IN [h |-> [st.h EXCEPT ![n] = kept], fs |-> n, dim |-> _defaultFilterHandler(kept)]

\* the handler is called but what it returns is dropped
applyFiltersDropsReturn(st, dim, live) ==
    IF dimension # "undefined" /\ dimension = "crossfilter"
    THEN LET res == CallFilterHandler(_filterHandler, st, live)
         IN [h |-> res.h,
             r |-> st.r,
             dim |-> res.dim,
             trace |-> <<Event("filterHandler",
                               IF res.fs # NoRef THEN Arr(res.h[res.fs]) ELSE Undefined,
                               st.h[st.r], res.dim)>>]
    ELSE [h |-> st.h, r |-> st.r, dim |-> dim, trace |-> <<>>]

\* the handler is called on whatever dimension the chart has
applyFiltersOnAnyDimension(st, dim, live) ==
    IF dimension # "undefined"
    THEN LET res == CallFilterHandler(_filterHandler, st, live)
         IN [h |-> res.h,
             r |-> IF res.fs # NoRef THEN res.fs ELSE st.r,
             dim |-> res.dim,
             trace |-> <<Event("filterHandler",
                               IF res.fs # NoRef THEN Arr(res.h[res.fs]) ELSE Undefined,
                               st.h[st.r], res.dim)>>]
    ELSE [h |-> st.h, r |-> st.r, dim |-> dim, trace |-> <<>>]

\* applyFilters(filters), lines 937-945
applyFilters(st, dim, live) ==
    IF dimension # "undefined" /\ dimension = "crossfilter"
    THEN LET res == CallFilterHandler(_filterHandler, st, live)
         IN [h |-> res.h,
             r |-> IF res.fs # NoRef THEN res.fs ELSE st.r,
             dim |-> res.dim,
             trace |-> <<Event("filterHandler",
                               IF res.fs # NoRef THEN Arr(res.h[res.fs]) ELSE Undefined,
                               st.h[st.r], res.dim)>>]
    ELSE [h |-> st.h, r |-> st.r, dim |-> dim, trace |-> <<>>]

\* _invokeFilteredListener(f), lines 787-791
_invokeFilteredListener(f, list, dim) ==
    IF f # Undefined THEN <<Event("filtered", f, list, dim)>> ELSE <<>>

\* hasFilter(filter), lines 836-838, on a given list
hasFilterOn(list, filter) == _defaultHasFilterHandler(list, filter)

\* turnOnControls / turnOffControls, lines 585-607: they act only under a root
turnOnControls(root, shown) == IF root # "undefined" THEN TRUE ELSE shown
\* the controls are left as they are
turnOffControlsKeeps(root, shown) == shown

turnOffControls(root, shown) == IF root # "undefined" THEN FALSE ELSE shown

\* the filters are applied before the list is updated
FilterCallAppliesStale(h, r, filter) ==
    LET live == {r, held} \ {NoRef}
        st0 == [h |-> h, r |-> r]
        st1 == IF IsToggleList(filter) THEN ToggleEach(st0, filter.e[1].e)
               ELSE IF filter = Null THEN Reset(st0, live)
               ELSE Toggle(st0, filter)
        ap == applyFilters(st0, dimFilter, live \cup {st1.r})
        now == st1.h[st1.r]
        on == _root # "null" /\ hasFilterOn(now, Undefined)
    IN [h |-> st1.h, r |-> st1.r, dim |-> ap.dim,
        controls |-> IF on THEN turnOnControls(_root, controls) ELSE turnOffControls(_root, controls),
        trace |-> ap.trace \o _invokeFilteredListener(filter, now, ap.dim)
                    \o <<Event(IF on THEN "turnOnControls" ELSE "turnOffControls", Null, now, ap.dim)>>]

\* the listener is invoked before the filters are applied
FilterCallNotifiesFirst(h, r, filter) ==
    LET live == {r, held} \ {NoRef}
        st0 == [h |-> h, r |-> r]
        st1 == IF IsToggleList(filter) THEN ToggleEach(st0, filter.e[1].e)
               ELSE IF filter = Null THEN Reset(st0, live)
               ELSE Toggle(st0, filter)
        ap == applyFilters(st1, dimFilter, live \cup {st1.r})
        now == ap.h[ap.r]
        on == _root # "null" /\ hasFilterOn(now, Undefined)
    IN [h |-> ap.h, r |-> ap.r, dim |-> ap.dim,
        controls |-> IF on THEN turnOnControls(_root, controls) ELSE turnOffControls(_root, controls),
        trace |-> _invokeFilteredListener(filter, h[r], dimFilter) \o ap.trace
                    \o <<Event(IF on THEN "turnOnControls" ELSE "turnOffControls", Null, now, ap.dim)>>]

(***************************************************************************)
(* filter(filter) with an argument, lines 1016-1045, run on heap h with    *)
(* this._filters = r.  Returns the new heap and reference, the dimension   *)
(* filter, the controls and the trace of the call.                         *)
(***************************************************************************)
FilterCall(h, r, filter) ==
    LET live == {r, held} \ {NoRef}
        st0 == [h |-> h, r |-> r]
        st1 == IF IsToggleList(filter) THEN ToggleEach(st0, filter.e[1].e)
               ELSE IF filter = Null THEN Reset(st0, live)
               ELSE Toggle(st0, filter)
        ap == applyFilters(st1, dimFilter, live \cup {st1.r})
        now == ap.h[ap.r]
        on == _root # "null" /\ hasFilterOn(now, Undefined)
    IN [h |-> ap.h, r |-> ap.r, dim |-> ap.dim,
        controls |-> IF on THEN turnOnControls(_root, controls) ELSE turnOffControls(_root, controls),
        trace |-> ap.trace \o _invokeFilteredListener(filter, now, ap.dim)
                    \o <<Event(IF on THEN "turnOnControls" ELSE "turnOffControls", Null, now, ap.dim)>>]

Ret(k, val, b, ref) == [k |-> k, val |-> val, b |-> b, ref |-> ref]
RetChart == Ret("chart", Undefined, FALSE, NoRef)

\* the state left by a method that went through FilterCall
Commit(name, arg, res) ==
    /\ Len(res.h[res.r]) <= MaxFilters
    /\ heap' = Collect(res.h, res.r, held)
    /\ _filters' = RenameRef(res.r, res.r)
    /\ held' = RenameRef(res.r, held)
    /\ dimFilter' = res.dim
    /\ controls' = res.controls
    /\ trace' = res.trace
    /\ lastOp' = [name |-> name, arg |-> arg]
    /\ ret' = RetChart
    /\ UNCHANGED <<dimension, _filterHandler, _anchor, _root, _isChild, _chartGroup, registry, chartClass, drawState>>

\* filter(filter), lines 1012-1046, with an argument
filter(arg) == Commit("filter", arg, FilterCall(heap, _filters, arg))

\* filterAll(), lines 365-367
filterAll == Commit("filterAll", Undefined, FilterCall(heap, _filters, Null))

\* chart.filter(null).filter(filter): the filters are applied twice
replaceFilterTwice(arg) ==
    LET r1 == FilterCall(heap, _filters, Null)
        r2 == FilterCall(r1.h, r1.r, arg)
    IN Commit("replaceFilter", arg, [r2 EXCEPT !.trace = r1.trace \o r2.trace])

\* replaceFilter(filter), lines 954-958
replaceFilter(arg) ==
    LET st == Reset([h |-> heap, r |-> _filters], {held} \ {NoRef})
    IN Commit("replaceFilter", arg, FilterCall(st.h, st.r, arg))


(***************************************************************************)
(* Read-only methods.  They change nothing but the record of the call.     *)
(***************************************************************************)
Observe(name, arg, r) ==
    /\ lastOp' = [name |-> name, arg |-> arg]
    /\ ret' = r
    /\ trace' = <<>>
    /\ UNCHANGED <<heap, _filters, dimension, dimFilter, _filterHandler,
                   _anchor, _root, _isChild, _chartGroup, registry, chartClass, drawState, controls>>

\* what filter() without an argument returns for a list, line 1014
FirstFilter(list) == IF Len(list) > 0 THEN list[1] ELSE Null

\* filter() without an argument, lines 1013-1015
filterGet ==
    /\ Observe("filter()", Undefined, Ret("value", FirstFilter(Filters), FALSE, NoRef))
    /\ UNCHANGED held

\* hasFilter(filter), lines 836-838; Undefined is the call without an argument
hasFilter(q) ==
    /\ Observe("hasFilter", q, Ret("boolean", Undefined, _defaultHasFilterHandler(Filters, q), NoRef))
    /\ UNCHANGED held

\* filters() hands out a copy of the list
filtersCopy ==
    /\ lastOp' = [name |-> "filters", arg |-> Undefined]
    /\ ret' = Ret("array", Undefined, FALSE, 2)
    /\ trace' = <<>>
    /\ heap' = [heap EXCEPT ![2] = heap[_filters]]
    /\ held' = 2
    /\ UNCHANGED <<_filters, dimension, dimFilter, _filterHandler,
                   _anchor, _root, _isChild, _chartGroup, registry, chartClass, drawState, controls>>

\* filters(), lines 1054-1056: the caller now holds what was returned
filters ==
    /\ Observe("filters", Undefined, Ret("array", Undefined, FALSE, _filters))
    /\ held' = _filters

(***************************************************************************)
(* In-place mutations by a caller of the array it got from filters().      *)
(***************************************************************************)
CallerMutates(name, arg, list) ==
    /\ held # NoRef
    /\ Len(list) <= MaxFilters
    /\ heap' = [heap EXCEPT ![held] = list]
    /\ lastOp' = [name |-> name, arg |-> arg]
    /\ ret' = Ret("undefined", Undefined, FALSE, NoRef)
    /\ trace' = <<>>
    /\ UNCHANGED <<_filters, held, dimension, dimFilter, _filterHandler,
                   _anchor, _root, _isChild, _chartGroup, registry, chartClass, drawState, controls>>

\* chart.filters().push(v)
callerPush(v) == CallerMutates("push", v, Append(heap[held], v))

\* chart.filters().pop()
callerPop == /\ held # NoRef
             /\ Len(heap[held]) > 0
             /\ CallerMutates("pop", Undefined, SubSeq(heap[held], 1, Len(heap[held]) - 1))

(***************************************************************************)
(* Configuration methods.                                                  *)
(***************************************************************************)
Configured(name) ==
    /\ lastOp' = [name |-> name, arg |-> Undefined]
    /\ ret' = RetChart
    /\ trace' = <<>>

\* configure({dimension: d}), lines 206-208: d is a dimension object of the
\* given kind that has received no filter call yet
configure(d) ==
    /\ dimension' = d
    /\ dimFilter' = NoCall
    /\ lastOp' = [name |-> "configure", arg |-> Undefined]
    /\ ret' = Ret("undefined", Undefined, FALSE, NoRef)
    /\ trace' = <<>>
    /\ UNCHANGED <<heap, _filters, held, _filterHandler,
                   _anchor, _root, _isChild, _chartGroup, registry, chartClass, drawState, controls>>

\* filterHandler(fn), lines 1139-1146
filterHandler(fn) ==
    /\ _filterHandler' = fn
    /\ Configured("filterHandler")
    /\ UNCHANGED <<heap, _filters, held, dimension, dimFilter,
                   _anchor, _root, _isChild, _chartGroup, registry, chartClass, drawState, controls>>

\* _getChartGroup(chartGroup), lines 442-444: a name (or nothing) is looked up
\* in the registry, a chart-group object is used as it is
_getChartGroup(chartGroup) == IF chartGroup = "undefined" THEN "default" ELSE chartGroup

ChartGroups == {"undefined", "group1"}

\* parents anchor() may be given: a chart instance, a selector string, a DOM
\* element, a d3 selection, a truthy value of any other kind (a number, a
\* plain object), or nothing
Parents == {"chart", "selector", "element", "selection", "other", "undefined"}

\* anchor() that registers a child chart too
anchorRegistersChild(parent, chartGroup) ==
    /\ _chartGroup' = _getChartGroup(chartGroup)
    /\ lastOp' = [name |-> "anchor", arg |-> Undefined]
    /\ trace' = <<>>
    /\ IF parent = "chart"
       THEN /\ _anchor' = "parentAnchor"
            /\ _root' = "parentRoot"
            /\ _isChild' = "true"
            /\ registry' = registry \cup {_chartGroup'}
            /\ chartClass' = chartClass
            /\ controls' \in BOOLEAN
            /\ ret' = RetChart
       ELSE IF parent # "undefined"
       THEN /\ _anchor' = IF parent = "selection" THEN "element" ELSE parent
            /\ _root' = "ownRoot"
            /\ controls' \in BOOLEAN
            /\ \/ /\ chartClass' = TRUE
                  /\ registry' = registry \cup {_chartGroup'}
                  /\ _isChild' = "false"
                  /\ ret' = RetChart
               \/ /\ parent = "other"
                  /\ ret' = Ret("TypeError", Undefined, FALSE, NoRef)
                  /\ UNCHANGED <<registry, chartClass, _isChild>>
       ELSE /\ ret' = Ret("BadArgumentException", Undefined, FALSE, NoRef)
            /\ UNCHANGED <<_anchor, _root, _isChild, registry, chartClass, controls>>
    /\ UNCHANGED <<heap, _filters, held, dimension, dimFilter, _filterHandler, drawState>>

\* anchor() that rejects every parent it does not recognise
anchorRejectsOther(parent, chartGroup) ==
    /\ _chartGroup' = _getChartGroup(chartGroup)
    /\ lastOp' = [name |-> "anchor", arg |-> Undefined]
    /\ trace' = <<>>
    /\ IF parent = "chart"
       THEN /\ _anchor' = "parentAnchor"
            /\ _root' = "parentRoot"
            /\ _isChild' = "true"
            /\ registry' = registry
            /\ chartClass' = chartClass
            /\ controls' \in BOOLEAN
            /\ ret' = RetChart
       ELSE IF parent \notin {"undefined", "other"}
       THEN /\ _anchor' = IF parent = "selection" THEN "element" ELSE parent
            /\ _root' = "ownRoot"
            /\ controls' \in BOOLEAN
            /\ chartClass' = TRUE
            /\ registry' = registry \cup {_chartGroup'}
            /\ _isChild' = "false"
            /\ ret' = RetChart
       ELSE /\ ret' = Ret("BadArgumentException", Undefined, FALSE, NoRef)
            /\ UNCHANGED <<_anchor, _root, _isChild, registry, chartClass, controls>>
    /\ UNCHANGED <<heap, _filters, held, dimension, dimFilter, _filterHandler, drawState>>

\* anchor(parent, chartGroup), lines 414-440.  A truthy parent is handed to
\* d3's select() whatever it is; for one that is no selector, element or
\* selection the classed() call on the result either goes through or throws
\* inside d3, after _anchor and _root were assigned
anchor(parent, chartGroup) ==
    /\ _chartGroup' = _getChartGroup(chartGroup)
    /\ lastOp' = [name |-> "anchor", arg |-> Undefined]
    /\ trace' = <<>>
    /\ IF parent = "chart"
       THEN /\ _anchor' = "parentAnchor"
            /\ _root' = "parentRoot"
            /\ _isChild' = "true"
            /\ registry' = registry
            /\ chartClass' = chartClass
            /\ controls' \in BOOLEAN
            /\ ret' = RetChart
       ELSE IF parent # "undefined"
       THEN /\ _anchor' = IF parent = "selection" THEN "element" ELSE parent
            /\ _root' = "ownRoot"
            /\ controls' \in BOOLEAN
            /\ \/ /\ chartClass' = TRUE
                  /\ registry' = registry \cup {_chartGroup'}
                  /\ _isChild' = "false"
                  /\ ret' = RetChart
               \/ /\ parent = "other"
                  /\ ret' = Ret("TypeError", Undefined, FALSE, NoRef)
                  /\ UNCHANGED <<registry, chartClass, _isChild>>
       ELSE /\ ret' = Ret("BadArgumentException", Undefined, FALSE, NoRef)
            /\ UNCHANGED <<_anchor, _root, _isChild, registry, chartClass, controls>>
    /\ UNCHANGED <<heap, _filters, held, dimension, dimFilter, _filterHandler, drawState>>

(***************************************************************************)
(* The render / redraw lifecycle.                                          *)
(***************************************************************************)
\* render() and redraw() calls a behaviour holds at most
MaxCalls == 2

\* configure({minWidth: 200, minHeight: 200, ...}) of the constructor
minWidth == 200
minHeight == 200

\* the lists _mandatoryAttributes() is given: the constructor's default, the
\* group alone, and none
MandatoryLists == { <<"dimension", "group">>, <<"group">>, <<>> }

\* transition durations: none, and the constructor's default
Durations == {0, 750}

\* group(g), lines 324-332
group(g) ==
    /\ _group' = g
    /\ Configured("group")
    /\ UNCHANGED <<filterState, anchorState, drawState, _mandatoryAttributesList, _transitionDuration,
                   _svg, _legend, _width, _height, history, pending, _commitHandler, commits>>

\* _mandatoryAttributes(list), lines 641-647
_mandatoryAttributes(list) ==
    /\ _mandatoryAttributesList' = list
    /\ Configured("_mandatoryAttributes")
    /\ UNCHANGED <<filterState, anchorState, drawState, _group, _transitionDuration,
                   _svg, _legend, _width, _height, history, pending, _commitHandler, commits>>

\* transitionDuration(duration), lines 616-622
transitionDuration(duration) ==
    /\ _transitionDuration' = duration
    /\ Configured("transitionDuration")
    /\ UNCHANGED <<filterState, anchorState, drawState, _group, _mandatoryAttributesList,
                   _svg, _legend, _width, _height, history, pending, _commitHandler, commits>>

\* legend(l), lines 1362-1369
legend(l) ==
    /\ _legend' = l
    /\ Configured("legend")
    /\ UNCHANGED <<filterState, anchorState, drawState, _group, _mandatoryAttributesList, _transitionDuration,
                   _svg, _width, _height, history, pending, _commitHandler, commits>>

\* the width() and height() getters, lines 238-244 and 266-272, with the
\* default calculation on an element smaller than the minimum
widthOf(w) == IF w.t = "num" THEN w ELSE Num(minWidth)
heightOf(h) == IF h.t = "num" THEN h ELSE Num(minHeight)

\* sizeSvg(), lines 509-519, without view-box resizing: the getters run, and
\* cache, only when there is an svg
sizeSvg(svg, w, h) ==
    IF svg # "undefined" THEN [w |-> widthOf(w), h |-> heightOf(h)] ELSE [w |-> w, h |-> h]

\* resetSvg(), lines 503-507 and 521-525: the draw routines of the svg charts
\* call it; it needs a root to append the svg to
resetSvg ==
    /\ lastOp' = [name |-> "resetSvg", arg |-> Undefined]
    /\ trace' = <<>>
    /\ IF _root = "undefined"
       THEN /\ ret' = Ret("TypeError", Undefined, FALSE, NoRef)
            /\ UNCHANGED <<_svg, _width, _height>>
       ELSE /\ _svg' = "svg"
            /\ _width' = sizeSvg("svg", _width, _height).w
            /\ _height' = sizeSvg("svg", _width, _height).h
            /\ ret' = Ret("svg", Undefined, FALSE, NoRef)
    /\ UNCHANGED <<filterState, anchorState, drawState, _group, _mandatoryAttributesList, _transitionDuration,
                   _legend, history, pending, _commitHandler, commits>>

(***************************************************************************)
(* The width and the height of the chart.  A size calculator is the        *)
(* default one, one that returns the number it was made from, or a         *)
(* function of the caller's that measures the anchor element.              *)
(***************************************************************************)
_defaultWidthCalc == [kind |-> "default", n |-> 0]
_defaultHeightCalc == [kind |-> "default", n |-> 0]

\* a function value: anchor => doSomethingWith(anchor)
Function == [t |-> "function", n |-> 0, s |-> <<>>, e |-> <<>>, ft |-> "none"]

\* what width(w) and height(h) may be given: null, 0, 250 and a function
SizeArgs == { Null, Num(0), Num(250), Function }

\* the sides the anchor element may have; 0 is an element that takes no
\* room or has no bounding rectangle
ElementSides == {0, 100, 300}

\* ToBoolean of a value
Truthy(v) ==
    CASE v.t = "num" -> v.n # 0
      [] v.t = "str" -> Len(v.s) > 0
      [] v.t \in {"null", "undefined"} -> FALSE
      [] OTHER -> TRUE

\* the calculator the setters make of their argument, lines 245 and 273
CalcFrom(arg, default) ==
    IF Truthy(arg)
    THEN IF arg.t = "function" THEN [kind |-> "function", n |-> 0] ELSE [kind |-> "const", n |-> arg.n]
    ELSE default

\* what a calculator returns for a side of the element: the default one the
\* side when it is larger than the minimum and the minimum otherwise, lines
\* 147-156; the caller's function twice the side
Calc(calc, side, min) ==
    CASE calc.kind = "default" -> Num(IF side # 0 /\ side > min THEN side ELSE min)
      [] calc.kind = "const" -> Num(calc.n)
      [] OTHER -> Num(2 * side)

\* what the width and height methods leave alone
Sized(name, arg, r, tr) ==
    /\ lastOp' = [name |-> name, arg |-> arg]
    /\ ret' = r
    /\ trace' = tr
    /\ UNCHANGED <<filterState, anchorState, chartType, _ordering, data, ordered, _ringSizes,
                   classes, boxState, _group, _mandatoryAttributesList, _transitionDuration, _svg,
                   _legend, history, pending, _commitHandler, commits>>

\* width(width), lines 273-275
width(w) ==
    /\ _widthCalc' = CalcFrom(w, _defaultWidthCalc)
    /\ _width' = Undefined
    /\ Sized("width", w, RetChart, <<>>)
    /\ UNCHANGED <<_height, _heightCalc, boundingClientRect>>

\* height(height), lines 245-247
height(h) ==
    /\ _heightCalc' = CalcFrom(h, _defaultHeightCalc)
    /\ _height' = Undefined
    /\ Sized("height", h, RetChart, <<>>)
    /\ UNCHANGED <<_width, _widthCalc, boundingClientRect>>

\* the getter runs the calculator on every call
widthGetRecalculates ==
    /\ IF _root = "undefined"
       THEN /\ Sized("width()", Undefined, Ret("TypeError", Undefined, FALSE, NoRef), <<>>)
            /\ UNCHANGED _width
       ELSE /\ _width' = Calc(_widthCalc, boundingClientRect.width, minWidth)
            /\ Sized("width()", Undefined, Ret("value", _width', FALSE, NoRef),
                     <<Event("_widthCalc", Num(boundingClientRect.width), Filters, dimFilter)>>)
    /\ UNCHANGED <<_height, sizeState>>

\* width() without an argument, lines 266-272: the calculator runs on the
\* node of the root when no number is cached
widthGet ==
    /\ IF _width.t = "num"
       THEN /\ Sized("width()", Undefined, Ret("value", _width, FALSE, NoRef), <<>>)
            /\ UNCHANGED _width
       ELSE IF _root = "undefined"
       THEN /\ Sized("width()", Undefined, Ret("TypeError", Undefined, FALSE, NoRef), <<>>)
            /\ UNCHANGED _width
       ELSE /\ _width' = Calc(_widthCalc, boundingClientRect.width, minWidth)
            /\ Sized("width()", Undefined, Ret("value", _width', FALSE, NoRef),
                     <<Event("_widthCalc", Num(boundingClientRect.width), Filters, dimFilter)>>)
    /\ UNCHANGED <<_height, sizeState>>

\* height() without an argument, lines 238-244
heightGet ==
    /\ IF _height.t = "num"
       THEN /\ Sized("height()", Undefined, Ret("value", _height, FALSE, NoRef), <<>>)
            /\ UNCHANGED _height
       ELSE IF _root = "undefined"
       THEN /\ Sized("height()", Undefined, Ret("TypeError", Undefined, FALSE, NoRef), <<>>)
            /\ UNCHANGED _height
       ELSE /\ _height' = Calc(_heightCalc, boundingClientRect.height, minHeight)
            /\ Sized("height()", Undefined, Ret("value", _height', FALSE, NoRef),
                     <<Event("_heightCalc", Num(boundingClientRect.height), Filters, dimFilter)>>)
    /\ UNCHANGED <<_width, sizeState>>

\* the page is laid out again and the anchor element gets another size
resize(w, h) ==
    /\ boundingClientRect' = [width |-> w, height |-> h]
    /\ boundingClientRect' # boundingClientRect
    /\ Sized("resize", Undefined, Ret("undefined", Undefined, FALSE, NoRef), <<>>)
    /\ UNCHANGED <<_width, _height, _widthCalc, _heightCalc>>

\* one step of a render() or redraw() call: what ran and, for a mandatory
\* attribute check, on which attribute
Step(ev, a) == [ev |-> ev, a |-> a]

\* the steps that are calls of listeners
ListenerEvents == {"preRender", "postRender", "preRedraw", "postRedraw", "renderlet", "pretransition"}

\* this._listeners.call(ev, this, this) for the listener steps among steps
RECURSIVE Calls(_, _, _)
Calls(steps, list, dim) ==
    IF Len(steps) = 0 THEN <<>>
    ELSE (IF Head(steps).ev \in ListenerEvents
          THEN <<Event(Head(steps).ev, Undefined, list, dim)>> ELSE <<>>)
         \o Calls(Tail(steps), list, dim)

\* this[a], line 650: the accessor methods BaseMixin has; the dimension is a
\* field of the configuration (line 139) and has no accessor
Accessors == {"group"}

\* checkForMandatoryAttributes(a), lines 649-653: TRUE when it does not throw
checkForMandatoryAttributes(a, g) == a \in Accessors /\ (a = "group" => g # "undefined")

\* this._mandatoryAttributesList.forEach(...), lines 666-668: the checks that
\* run, up to the first that throws
RECURSIVE CheckSteps(_, _)
CheckSteps(list, g) ==
    IF Len(list) = 0 THEN <<>>
    ELSE <<Step("checkForMandatoryAttributes", Head(list))>>
         \o (IF checkForMandatoryAttributes(Head(list), g) THEN CheckSteps(Tail(list), g) ELSE <<>>)

ChecksPass(list, g) == \A i \in 1..Len(list) : checkForMandatoryAttributes(list[i], g)

_activateRenderletsPostFirst(event, duration, svg) ==
    IF duration > 0 /\ svg # "undefined"
    THEN [now |-> <<Step("pretransition", ""), Step("transition", "")>>,
          later |-> (IF event # "undefined" THEN <<event>> ELSE <<>>) \o <<"renderlet">>]
    ELSE [now |-> <<Step("pretransition", "")>>
                  \o (IF event # "undefined" THEN <<Step(event, "")>> ELSE <<>>)
                  \o <<Step("renderlet", "")>>,
          later |-> <<>>]

_activateRenderletsAlwaysLater(event, duration, svg) ==
    IF duration > 0
    THEN [now |-> <<Step("pretransition", ""), Step("transition", "")>>,
          later |-> <<"renderlet">> \o (IF event # "undefined" THEN <<event>> ELSE <<>>)]
    ELSE [now |-> <<Step("pretransition", ""), Step("renderlet", "")>>
                  \o (IF event # "undefined" THEN <<Step(event, "")>> ELSE <<>>),
          later |-> <<>>]

\* _activateRenderlets(event), lines 682-698: the steps that run before it
\* returns, and the events the transition's end callback will fire
_activateRenderlets(event, duration, svg) ==
    IF duration > 0 /\ svg # "undefined"
    THEN [now |-> <<Step("pretransition", ""), Step("transition", "")>>,
          later |-> <<"renderlet">> \o (IF event # "undefined" THEN <<event>> ELSE <<>>)]
    ELSE [now |-> <<Step("pretransition", ""), Step("renderlet", "")>>
                  \o (IF event # "undefined" THEN <<Step(event, "")>> ELSE <<>>),
          later |-> <<>>]

\* the entry of history for one call: whether it ran to its return, the size
\* cache its first listener was called on, and its steps so far
Call(kind, ok, size, steps) == [kind |-> kind, ok |-> ok, size |-> size, steps |-> steps]

LifecycleCancels(kind, ok, size, steps, later) ==
    /\ Len(history) < MaxCalls
    /\ lastOp' = [name |-> kind, arg |-> Undefined]
    /\ ret' = IF ok THEN RetChart ELSE Ret("InvalidStateException", Undefined, FALSE, NoRef)
    /\ trace' = Calls(steps, Filters, dimFilter)
    /\ history' = Append(history, Call(kind, ok, size, steps))
    /\ pending' = IF later # <<>>
                  THEN {[id |-> Len(history) + 1, events |-> later]}
                  ELSE pending
    /\ UNCHANGED <<filterState, anchorState, drawState, _group, _mandatoryAttributesList, _transitionDuration,
                   _svg, _legend, _commitHandler, commits>>

\* what a render() or redraw() call leaves behind
Lifecycle(kind, ok, size, steps, later) ==
    /\ Len(history) < MaxCalls
    /\ lastOp' = [name |-> kind, arg |-> Undefined]
    /\ ret' = IF ok THEN RetChart ELSE Ret("InvalidStateException", Undefined, FALSE, NoRef)
    /\ trace' = Calls(steps, Filters, dimFilter)
    /\ history' = Append(history, Call(kind, ok, size, steps))
    /\ pending' = IF later # <<>>
                  THEN pending \cup {[id |-> Len(history) + 1, events |-> later]}
                  ELSE pending
    /\ UNCHANGED <<filterState, anchorState, drawState, _group, _mandatoryAttributesList, _transitionDuration,
                   _svg, _legend, _commitHandler, commits>>

RenderStepsGoesOn(list, g, leg, duration, svg) ==
    LET act == _activateRenderlets("postRender", duration, svg)
    IN [steps |-> <<Step("preRender", "")>>
                  \o CheckSteps(list, g)
                  \o <<Step("_doRender", "")>>
                  \o (IF leg # "undefined" THEN <<Step("legend.render", "")>> ELSE <<>>)
                  \o act.now,
        later |-> act.later]

\* the steps of render() behind the reset of the size cache, lines 664-676
RenderSteps(list, g, leg, duration, svg) ==
    LET act == _activateRenderlets("postRender", duration, svg)
    IN [steps |-> <<Step("preRender", "")>>
                  \o CheckSteps(list, g)
                  \o (IF ChecksPass(list, g)
                      THEN <<Step("_doRender", "")>>
                           \o (IF leg # "undefined" THEN <<Step("legend.render", "")>> ELSE <<>>)
                           \o act.now
                      ELSE <<>>),
        later |-> IF ChecksPass(list, g) THEN act.later ELSE <<>>]

\* render(), lines 662-679; the draw routine is the stub of lines 1148-1151
render ==
    LET r == RenderSteps(_mandatoryAttributesList, _group, _legend, _transitionDuration, _svg)
    IN /\ _width' = Undefined
       /\ _height' = Undefined
       /\ Lifecycle("render", ChecksPass(_mandatoryAttributesList, _group),
                    <<_width', _height'>>, r.steps, r.later)

redrawChecks ==
    LET s == sizeSvg(_svg, _width, _height)
        act == _activateRenderlets("postRedraw", _transitionDuration, _svg)
        ok == ChecksPass(_mandatoryAttributesList, _group)
    IN /\ _width' = s.w
       /\ _height' = s.h
       /\ Lifecycle("redraw", ok, <<_width', _height'>>,
                    <<Step("sizeSvg", ""), Step("preRedraw", "")>>
                    \o CheckSteps(_mandatoryAttributesList, _group)
                    \o (IF ok
                        THEN <<Step("_doRedraw", "")>>
                             \o (IF _legend # "undefined"
                                 THEN <<Step("legend.render", "")>> ELSE <<>>)
                             \o act.now
                        ELSE <<>>),
                    IF ok THEN act.later ELSE <<>>)

\* redraw(), lines 710-723; the draw routine is the stub of lines 1153-1156
redraw ==
    LET s == sizeSvg(_svg, _width, _height)
        act == _activateRenderlets("postRedraw", _transitionDuration, _svg)
    IN /\ _width' = s.w
       /\ _height' = s.h
       /\ Lifecycle("redraw", TRUE, <<_width', _height'>>,
                    <<Step("sizeSvg", ""), Step("preRedraw", ""), Step("_doRedraw", "")>>
                    \o (IF _legend # "undefined" THEN <<Step("legend.render", "")>> ELSE <<>>)
                    \o act.now,
                    act.later)

\* the 'end' callback of the transition of one call, lines 686-691
TransitionEnd(p) ==
    /\ p \in pending
    /\ LET steps == [i \in 1..Len(p.events) |-> Step(p.events[i], "")]
       IN /\ history' = [history EXCEPT ![p.id].steps = @ \o steps]
          /\ trace' = Calls(steps, Filters, dimFilter)
    /\ pending' = pending \ {p}
    /\ lastOp' = [name |-> "transitionEnd", arg |-> Undefined]
    /\ ret' = Ret("undefined", Undefined, FALSE, NoRef)
    /\ UNCHANGED <<filterState, anchorState, drawState, _group, _mandatoryAttributesList, _transitionDuration,
                   _svg, _legend, _width, _height, _commitHandler, commits>>

(***************************************************************************)
(* The chart group: registration, and the group-wide render and redraw     *)
(* behind an optional commit handler.                                      *)
(***************************************************************************)
\* renderGroup() and redrawGroup() calls a behaviour holds at most
MaxRequests == 2

\* ChartGroup.register(chart) and ChartGroup.deregister(chart): a group is a
\* set of charts, so the groups one chart is in are a set of groups
register(reg, g) == reg \cup {g}
deregister(reg, g) == reg \ {g}

\* chartGroup(g), lines 1324-1336; a chart that was never anchored has no
\* group to deregister from
chartGroup(g) ==
    /\ lastOp' = [name |-> "chartGroup", arg |-> Undefined]
    /\ trace' = <<>>
    /\ IF _isChild # "true" /\ _chartGroup = "undefined"
       THEN /\ ret' = Ret("TypeError", Undefined, FALSE, NoRef)
            /\ UNCHANGED <<_chartGroup, registry>>
       ELSE /\ _chartGroup' = _getChartGroup(g)
            /\ registry' = IF _isChild # "true"
                           THEN register(deregister(registry, _chartGroup), _getChartGroup(g))
                           ELSE registry
            /\ ret' = RetChart
    /\ UNCHANGED <<filterState, _anchor, _root, _isChild, chartClass, drawState, lifecycle>>

\* the chartGroup() getter, lines 1325-1327
chartGroupGet ==
    /\ lastOp' = [name |-> "chartGroup()", arg |-> Undefined]
    /\ trace' = <<>>
    /\ ret' = Ret(_chartGroup, Undefined, FALSE, NoRef)
    /\ UNCHANGED <<filterState, anchorState, drawState, lifecycle>>

\* commitHandler(h), lines 738-744
CommitHandlers == {"undefined", "handler"}

commitHandler(h) ==
    /\ _commitHandler' = h
    /\ Configured("commitHandler")
    /\ UNCHANGED <<filterState, anchorState, drawState, _group, _mandatoryAttributesList, _transitionDuration,
                   _svg, _legend, _width, _height, history, pending, commits>>

\* what a commit handler does with its callback while it runs: calls it with
\* an error, calls it without one, or keeps it for later
HandlerRuns == {"error", "ok", "pending"}

CallbackIgnoresError(all, cg, error) ==
    [group |-> IF cg # "undefined" THEN <<[call |-> all, on |-> cg]>> ELSE <<>>,
     logged |-> <<>>]

\* the callback handed to the commit handler, lines 754-760 and 774-780:
\* the group calls it makes and what it logs
Callback(all, cg, error) ==
    IF error
    THEN [group |-> <<>>, logged |-> <<"error">>]
    ELSE [group |-> IF cg # "undefined" THEN <<[call |-> all, on |-> cg]>> ELSE <<>>,
          logged |-> <<>>]

\* the entry of commits for one request
Request(req, handler, isRender, cb, calls, logged) ==
    [req |-> req, handler |-> handler, isRender |-> isRender, cb |-> cb,
     group |-> calls, logged |-> logged]

GroupCallEarly(req, all, flag, run) ==
    /\ Len(commits) < MaxRequests
    /\ lastOp' = [name |-> req, arg |-> Undefined]
    /\ trace' = <<>>
    /\ IF _commitHandler # "undefined"
       THEN /\ commits' = Append(commits,
                  Request(req, TRUE, <<flag>>, run,
                          IF _chartGroup # "undefined"
                          THEN <<[call |-> all, on |-> _chartGroup]>> ELSE <<>>,
                          <<>>))
            /\ ret' = RetChart
       ELSE /\ run = "ok"
            /\ commits' = Append(commits,
                  Request(req, FALSE, <<>>, "none",
                          Callback(all, _chartGroup, FALSE).group, <<>>))
            /\ ret' = IF _chartGroup # "undefined" THEN RetChart
                      ELSE Ret("TypeError", Undefined, FALSE, NoRef)
    /\ UNCHANGED <<filterState, anchorState, drawState, _group, _mandatoryAttributesList, _transitionDuration,
                   _svg, _legend, _width, _height, history, pending, _commitHandler>>

\* the body shared by redrawGroup() and renderGroup(), lines 752-765 and
\* 772-785: flag is the first argument the commit handler is given, all the
\* method of the chart group that is called, run what the handler does with
\* the callback before it returns
GroupCall(req, all, flag, run) ==
    /\ Len(commits) < MaxRequests
    /\ lastOp' = [name |-> req, arg |-> Undefined]
    /\ trace' = <<>>
    /\ IF _commitHandler # "undefined"
       THEN /\ commits' = Append(commits,
                  IF run = "pending"
                  THEN Request(req, TRUE, <<flag>>, "pending", <<>>, <<>>)
                  ELSE LET c == Callback(all, _chartGroup, run = "error")
                       IN Request(req, TRUE, <<flag>>, run, c.group, c.logged))
            /\ ret' = RetChart
       ELSE /\ run = "ok"
            /\ commits' = Append(commits,
                  Request(req, FALSE, <<>>, "none",
                          Callback(all, _chartGroup, FALSE).group, <<>>))
            /\ ret' = IF _chartGroup # "undefined" THEN RetChart
                      ELSE Ret("TypeError", Undefined, FALSE, NoRef)
    /\ UNCHANGED <<filterState, anchorState, drawState, _group, _mandatoryAttributesList, _transitionDuration,
                   _svg, _legend, _width, _height, history, pending, _commitHandler>>

\* redrawGroup(), lines 752-765
redrawGroup(run) == GroupCall("redrawGroup", "redrawAll", FALSE, run)

\* renderGroup(), lines 772-785
renderGroup(run) == GroupCall("renderGroup", "renderAll", FALSE, run)

\* the method of the chart group the callback of a request calls
AllOf(req) == IF req = "renderGroup" THEN "renderAll" ELSE "redrawAll"

\* a commit handler calls a callback it kept, with an error or without
CommitCallback(i, error) ==
    /\ i \in 1..Len(commits)
    /\ commits[i].cb = "pending"
    /\ LET c == Callback(AllOf(commits[i].req), _chartGroup, error)
       IN commits' = [commits EXCEPT ![i].cb = IF error THEN "error" ELSE "ok",
                                     ![i].group = @ \o c.group,
                                     ![i].logged = @ \o c.logged]
    /\ lastOp' = [name |-> "commitCallback", arg |-> Undefined]
    /\ trace' = <<>>
    /\ ret' = Ret("undefined", Undefined, FALSE, NoRef)
    /\ UNCHANGED <<filterState, anchorState, drawState, _group, _mandatoryAttributesList, _transitionDuration,
                   _svg, _legend, _width, _height, history, pending, _commitHandler>>

(***************************************************************************)
(* Clicks.  A drawn element carries the record of the group it was drawn   *)
(* from; the click handler filters on the record's key and asks the group  *)
(* to redraw.                                                              *)
(***************************************************************************)
\* this._keyAccessor, line 161: d => d.key
_keyAccessor(d) == d.key

\* the records behind the elements a user clicks on: their keys are a
\* number, the string it coerces to and a path
ClickData ==
    { [key |-> k, value |-> 1] : k \in { Num(1), Str(<<49>>), Arr(<<Str(<<97>>), Str(<<98>>)>>) } }

\* what a group request made while the list is `list` and the dimension
\* filter is `dim` lets the commit handler and the chart group observe
GroupEvents(handler, cg, run, list, dim) ==
    (IF handler # "undefined" THEN <<Event("commitHandler", Undefined, list, dim)>> ELSE <<>>)
    \o (IF cg # "undefined" /\ run = "ok" THEN <<Event("redrawAll", Undefined, list, dim)>> ELSE <<>>)

\* the closure of onClick with its two calls in the other order
onClickRedrawsFirst(datum, run) ==
    \E res \in {FilterCall(heap, _filters, _keyAccessor(datum))} :
       /\ Len(commits) < MaxRequests
       /\ _commitHandler = "undefined" => run = "ok"
       /\ Len(res.h[res.r]) <= MaxFilters
       /\ heap' = Collect(res.h, res.r, held)
       /\ _filters' = RenameRef(res.r, res.r)
       /\ held' = RenameRef(res.r, held)
       /\ dimFilter' = res.dim
       /\ controls' = res.controls
       /\ commits' = Append(commits,
             IF _commitHandler # "undefined"
             THEN IF run = "pending"
                  THEN Request("redrawGroup", TRUE, <<FALSE>>, "pending", <<>>, <<>>)
                  ELSE LET c == Callback("redrawAll", _chartGroup, run = "error")
                       IN Request("redrawGroup", TRUE, <<FALSE>>, run, c.group, c.logged)
             ELSE Request("redrawGroup", FALSE, <<>>, "none",
                          Callback("redrawAll", _chartGroup, FALSE).group, <<>>))
       /\ trace' = GroupEvents(_commitHandler, _chartGroup, run, Filters, dimFilter) \o res.trace
       /\ lastOp' = [name |-> "onClick", arg |-> _keyAccessor(datum)]
       /\ ret' = IF _commitHandler = "undefined" /\ _chartGroup = "undefined"
                 THEN Ret("TypeError", Undefined, FALSE, NoRef)
                 ELSE Ret("undefined", Undefined, FALSE, NoRef)
       /\ UNCHANGED <<dimension, _filterHandler, anchorState, drawState, _group,
                      _mandatoryAttributesList, _transitionDuration, _svg, _legend,
                      _width, _height, history, pending, _commitHandler>>

\* onClick(datum), lines 1085-1091: events.trigger is given no delay and runs
\* the closure at once, filter(filter) and then redrawGroup(); run is what
\* the commit handler does with its callback before it returns
onClick(datum, run) ==
    \E res \in {FilterCall(heap, _filters, _keyAccessor(datum))} :
       /\ Len(commits) < MaxRequests
       /\ _commitHandler = "undefined" => run = "ok"
       /\ Len(res.h[res.r]) <= MaxFilters
       /\ heap' = Collect(res.h, res.r, held)
       /\ _filters' = RenameRef(res.r, res.r)
       /\ held' = RenameRef(res.r, held)
       /\ dimFilter' = res.dim
       /\ controls' = res.controls
       /\ commits' = Append(commits,
             IF _commitHandler # "undefined"
             THEN IF run = "pending"
                  THEN Request("redrawGroup", TRUE, <<FALSE>>, "pending", <<>>, <<>>)
                  ELSE LET c == Callback("redrawAll", _chartGroup, run = "error")
                       IN Request("redrawGroup", TRUE, <<FALSE>>, run, c.group, c.logged)
             ELSE Request("redrawGroup", FALSE, <<>>, "none",
                          Callback("redrawAll", _chartGroup, FALSE).group, <<>>))
       /\ trace' = res.trace \o GroupEvents(_commitHandler, _chartGroup, run, res.h[res.r], res.dim)
       /\ lastOp' = [name |-> "onClick", arg |-> _keyAccessor(datum)]
       /\ ret' = IF _commitHandler = "undefined" /\ _chartGroup = "undefined"
                 THEN Ret("TypeError", Undefined, FALSE, NoRef)
                 ELSE Ret("undefined", Undefined, FALSE, NoRef)
       /\ UNCHANGED <<dimension, _filterHandler, anchorState, drawState, _group,
                      _mandatoryAttributesList, _transitionDuration, _svg, _legend,
                      _width, _height, history, pending, _commitHandler>>

(***************************************************************************)
(* Ordering of the group's records, lines 335-358.  A record of the group  *)
(* is {key, value}; the keys are one-letter strings, the values numbers.   *)
(***************************************************************************)
\* the largest value a record of the group has
MaxValue == 3

GroupKeys == {97, 98, 99}

GroupRecord(k, v) == [key |-> k, value |-> v]

\* what group.all() may hold: records with different keys, in any order
DataSets ==
    { d \in SeqsUpTo([key : GroupKeys, value : 1..MaxValue], Cardinality(GroupKeys)) :
        \A i, j \in 1..Len(d) : d[i].key = d[j].key => i = j }

\* the ordering accessors: d => d.key (the default, line 165), d => d.value
\* and d => -d.value
OrderingAccessors == {"key", "value", "negValue"}

\* this._ordering(d)
OrderingOf(fn, d) ==
    CASE fn = "key" -> Str(<<d.key>>)
      [] fn = "value" -> Num(d.value)
      [] OTHER -> Num(0 - d.value)

\* d3-array's ascending(a, b): -1, 0 or 1 (NaN, which sort() takes as 0,
\* for operands that do not compare)
ascending(a, b) == IF JsLt(a, b) THEN 0 - 1 ELSE IF JsLt(b, a) THEN 1 ELSE 0

\* one step of the stable sort: x goes behind every entry that is not
\* greater than it
RECURSIVE SortInsert(_, _, _)
SortInsert(sorted, x, fn) ==
    IF Len(sorted) = 0 THEN <<x>>
    ELSE IF ascending(OrderingOf(fn, Head(sorted)), OrderingOf(fn, x)) <= 0
         THEN <<Head(sorted)>> \o SortInsert(Tail(sorted), x, fn)
         ELSE <<x>> \o sorted

\* the comparator is turned round
RECURSIVE ComputeDescending(_, _)
ComputeDescending(d, fn) ==
    IF Len(d) = 0 THEN <<>>
    ELSE LET rest == ComputeDescending(SubSeq(d, 1, Len(d) - 1), fn)
             x == d[Len(d)]
             before == { i \in 1..Len(rest) :
                           ascending(OrderingOf(fn, rest[i]), OrderingOf(fn, x)) < 0 }
             at == IF before = {} THEN Len(rest) ELSE (CHOOSE i \in before : \A j \in before : i <= j) - 1
         IN SubSeq(rest, 1, at) \o <<x>> \o SubSeq(rest, at + 1, Len(rest))

\* _computeOrderedGroups(data), lines 355-358: a sorted copy of the records
RECURSIVE _computeOrderedGroups(_, _)
_computeOrderedGroups(d, fn) ==
    IF Len(d) = 0 THEN <<>>
    ELSE SortInsert(_computeOrderedGroups(SubSeq(d, 1, Len(d) - 1), fn), d[Len(d)], fn)

\* a method that touches the draw state only
Drawn(name, r) ==
    /\ lastOp' = [name |-> name, arg |-> Undefined]
    /\ ret' = r
    /\ trace' = <<>>
    /\ UNCHANGED <<filterState, anchorState, lifecycle>>

\* ordering(orderFunction), lines 344-353
ordering(fn) ==
    /\ _ordering' = fn
    /\ Drawn("ordering", RetChart)
    /\ UNCHANGED <<chartType, data, ordered, _ringSizes, classes, sizeState, boxState>>

\* a chart's draw routine asks for the ordered records of its group
computeOrderedGroups(d) ==
    /\ data' = d
    /\ ordered' = _computeOrderedGroups(d, _ordering)
    /\ Drawn("_computeOrderedGroups", Ret("array", Undefined, FALSE, NoRef))
    /\ UNCHANGED <<chartType, _ordering, _ringSizes, classes, sizeState, boxState>>

(***************************************************************************)
(* Highlighting of the drawn nodes.  A node is known by its key; its class *)
(* attribute is the pair of flags that classed() sets and clears.          *)
(***************************************************************************)
NoClass == [selected |-> FALSE, deselected |-> FALSE]

\* the classes of a node, one that has just been entered included
ClassOf(cls, d) == IF d \in DOMAIN cls THEN cls[d] ELSE NoClass

\* highlightSelected(e), lines 1058-1061
highlightSelected(c) == [[c EXCEPT !.selected = TRUE] EXCEPT !.deselected = FALSE]

\* the selected class is left on the node
fadeDeselectedKeepsSelected(c) == [c EXCEPT !.deselected = TRUE]

\* fadeDeselected(e), lines 1063-1066
fadeDeselected(c) == [[c EXCEPT !.selected = FALSE] EXCEPT !.deselected = TRUE]

\* resetHighlight(e), lines 1068-1071
resetHighlight(c) == [[c EXCEPT !.selected = FALSE] EXCEPT !.deselected = FALSE]

\* the keys of the boxes of a box plot and the paths of the outermost
\* slices of a sunburst
BoxKeys == { Num(1), Num(2), Str(<<97>>) }
SlicePaths ==
    { Arr(<<Str(<<97>>), Str(<<98>>)>>), Arr(<<Str(<<98>>), Str(<<97>>)>>),
      Arr(<<Str(<<97>>), Str(<<97>>)>>) }

\* BoxPlot.isSelectedNode(d): hasFilter(keyAccessor(d))
isSelectedNode(list, d) == hasFilterOn(list, d)

\* v[i - 1] in JavaScript
ElementAt(v, i) ==
    IF v.t = "arr" /\ i <= Len(v.e) THEN v.e[i]
    ELSE IF v.t = "str" /\ i <= Len(v.s) THEN Str(<<v.s[i]>>)
    ELSE Undefined

\* the box whose key is the end of the range is highlighted too
fadeDeselectedAreaClosed(list, brushSelection, ordinal, brush, cls) ==
    IF hasFilterOn(list, Undefined)
    THEN IF ordinal
         THEN [d \in BoxKeys |-> IF isSelectedNode(list, d)
                                 THEN highlightSelected(ClassOf(cls, d))
                                 ELSE fadeDeselected(ClassOf(cls, d))]
         ELSE IF ~brush
              THEN [d \in BoxKeys |-> ClassOf(cls, d)]
              ELSE LET start == ElementAt(brushSelection, 1)
                       end == ElementAt(brushSelection, 2)
                   IN [d \in BoxKeys |-> IF JsLt(d, start) \/ JsLt(end, d)
                                         THEN fadeDeselected(ClassOf(cls, d))
                                         ELSE highlightSelected(ClassOf(cls, d))]
    ELSE [d \in BoxKeys |-> resetHighlight(ClassOf(cls, d))]

\* BoxPlot.fadeDeselectedArea(brushSelection); ordinal is isOrdinal(), brush
\* is brushOn() || parentBrushOn()
fadeDeselectedArea(list, brushSelection, ordinal, brush, cls) ==
    IF hasFilterOn(list, Undefined)
    THEN IF ordinal
         THEN [d \in BoxKeys |-> IF isSelectedNode(list, d)
                                 THEN highlightSelected(ClassOf(cls, d))
                                 ELSE fadeDeselected(ClassOf(cls, d))]
         ELSE IF ~brush
              THEN [d \in BoxKeys |-> ClassOf(cls, d)]
              ELSE LET start == ElementAt(brushSelection, 1)
                       end == ElementAt(brushSelection, 2)
                   IN [d \in BoxKeys |-> IF JsLt(d, start) \/ JsGte(d, end)
                                         THEN fadeDeselected(ClassOf(cls, d))
                                         ELSE highlightSelected(ClassOf(cls, d))]
    ELSE [d \in BoxKeys |-> resetHighlight(ClassOf(cls, d))]

\* BoxPlot.plotData(): the boxes are joined to the data and highlighted
plotData(ordinal, brush) ==
    /\ chartType = "BoxPlot"
    /\ classes' = fadeDeselectedArea(Filters, FirstFilter(Filters), ordinal, brush, classes)
    /\ Drawn("plotData", Ret("undefined", Undefined, FALSE, NoRef))
    /\ UNCHANGED <<chartType, _ordering, data, ordered, _ringSizes, sizeState, boxState>>

\* a sunburst slice is selected when a filter accepts its path
isSelectedSlice(list, d) == \E i \in 1..Len(list) : list[i].ft # "none" /\ isFiltered(list[i], d)

\* the sunburst chart highlights its slices when it has drawn them
highlightFilter(list, cls) ==
    IF hasFilterOn(list, Undefined)
    THEN [d \in SlicePaths |-> IF isSelectedSlice(list, d)
                               THEN highlightSelected(ClassOf(cls, d))
                               ELSE fadeDeselected(ClassOf(cls, d))]
    ELSE [d \in SlicePaths |-> resetHighlight(ClassOf(cls, d))]

drawSunburst ==
    /\ chartType = "SunburstChart"
    /\ classes' = highlightFilter(Filters, classes)
    /\ Drawn("drawChart", Ret("undefined", Undefined, FALSE, NoRef))
    /\ UNCHANGED <<chartType, _ordering, data, ordered, _ringSizes, sizeState, boxState>>

(***************************************************************************)
(* The whiskers of a box.  The values of a box are a sorted array d that   *)
(* carries its quartiles; the whisker factor k is counted in halves, so    *)
(* that 1.5 is 3, and the fences are compared doubled.                     *)
(***************************************************************************)
\* the longest array of values a box has
MaxLen == 3
\* the largest value
MaxDatum == 4

\* the whisker factors, in halves: -0.5, 0 and the 1.5 of the constructor
Factors == {0 - 1, 0, 3}

\* ascending arrays of values, none empty
SortedArrays ==
    { d \in SeqsUpTo(0..MaxDatum, MaxLen) :
        Len(d) > 0 /\ \A x \in 1..(Len(d) - 1) : d[x] <= d[x + 1] }

\* d with d.quartiles = [q1, median, q3], and the factor its whiskers are
\* computed with
Box(k2, d, q1, q3) == [k2 |-> k2, d |-> d, q1 |-> q1, q3 |-> q3]
NoBox == Box(3, <<>>, 0, 0)

Boxes == { Box(k2, d, q1, q3) : k2 \in Factors, d \in SortedArrays,
                                 q1 \in 0..MaxDatum, q3 \in 0..MaxDatum }

\* do { ++i } while (d[i] < q1 - iqr), from index i on: an index past the
\* end reads undefined, which is less than nothing
RECURSIVE WhiskerLow(_, _, _)
WhiskerLow(d, i, lo2) ==
    IF i < Len(d) /\ 2 * d[i + 1] < lo2 THEN WhiskerLow(d, i + 1, lo2) ELSE i

\* do { --j } while (d[j] > q3 + iqr), from index j down
RECURSIVE WhiskerHigh(_, _, _)
WhiskerHigh(d, j, hi2) ==
    IF j >= 0 /\ 2 * d[j + 1] > hi2 THEN WhiskerHigh(d, j - 1, hi2) ELSE j

\* the factor is left out of the fences
WhiskersIgnoreFactor(k2, d, q1, q3) ==
    <<WhiskerLow(d, 0, 2 * q1 - 2 * (q3 - q1)), WhiskerHigh(d, Len(d) - 1, 2 * q3 + 2 * (q3 - q1))>>

\* defaultWhiskersIQR(k)(d): the indices [i, j], counted from 0
defaultWhiskersIQR(k2, d, q1, q3) ==
    LET iqr2 == (q3 - q1) * k2
    IN <<WhiskerLow(d, 0, 2 * q1 - iqr2), WhiskerHigh(d, Len(d) - 1, 2 * q3 + iqr2)>>

\* the box chart computes the whiskers of a box it draws
whiskers(b) ==
    /\ chartType = "BoxPlot"
    /\ box' = b
    /\ whiskerIndices' = defaultWhiskersIQR(b.k2, b.d, b.q1, b.q3)
    /\ Drawn("whiskers", Ret("array", Undefined, FALSE, NoRef))
    /\ UNCHANGED <<chartType, _ordering, data, ordered, _ringSizes, classes, sizeState>>

(***************************************************************************)
(* Ring sizes of a sunburst chart.  A portion of the radius is a number of *)
(* thirtieths: .1 is 3, .3 is 9, .5 is 15, .6 is 18.                       *)
(***************************************************************************)
\* the whole radius, in thirtieths
Whole == 30

\* the rings of the chart: the depth of the paths of its data
RingCount == 3

Portions == {3, 9, 15, 18}

\* what a caller's percentage function may return: an object that is no
\* array, or an array of portions
RelativeOutputs ==
    {[array |-> FALSE, portions |-> <<>>]}
        \cup {[array |-> TRUE, portions |-> ps] : ps \in SeqsUpTo(Portions, RingCount + 1)}

\* defaultRingSizes(), equalRingSizes() and relativeRingSizes(fn), fn known
\* by what it returns
defaultRingSizes == [policy |-> "default", out |-> [array |-> TRUE, portions |-> <<>>]]
equalRingSizes == [policy |-> "equal", out |-> [array |-> TRUE, portions |-> <<>>]]
relativeRingSizes(out) == [policy |-> "relative", out |-> out]

RingPolicies == {defaultRingSizes, equalRingSizes} \cup {relativeRingSizes(out) : out \in RelativeOutputs}

RECURSIVE SumOf(_)
SumOf(ps) == IF Len(ps) = 0 THEN 0 ELSE Head(ps) + SumOf(Tail(ps))

\* the portions a policy gives for a number of rings: the equal policy is
\* the relative one with ringCount equal portions
PortionsOf(p, ringCount) ==
    IF p.policy = "equal"
    THEN [array |-> TRUE, portions |-> [i \in 1..ringCount |-> Whole \div ringCount]]
    ELSE p.out

\* the sum of the portions is not looked at
RingSizesValidByLength(p, ringCount) ==
    \/ p.policy = "default"
    \/ /\ PortionsOf(p, ringCount).array
       /\ Len(PortionsOf(p, ringCount).portions) = ringCount

\* the check made when the rings are laid out
RingSizesValid(p, ringCount) ==
    \/ p.policy = "default"
    \/ /\ PortionsOf(p, ringCount).array
       /\ Len(PortionsOf(p, ringCount).portions) = ringCount
       /\ SumOf(PortionsOf(p, ringCount).portions) = Whole

\* ringSizes(policy): the policy is kept, not applied
ringSizes(p) ==
    /\ chartType = "SunburstChart"
    /\ _ringSizes' = p
    /\ Drawn("ringSizes", RetChart)
    /\ UNCHANGED <<chartType, _ordering, data, ordered, classes, sizeState, boxState>>

\* render() of a sunburst chart that has its dimension and group: the rings
\* are laid out by the draw routine, which fails on a policy that is not valid
renderSunburst ==
    LET ok == RingSizesValid(_ringSizes, RingCount)
    IN /\ chartType = "SunburstChart"
       /\ Len(history) < MaxCalls
       /\ history' = Append(history, Call("render", ok, <<_width, _height>>, <<Step("_doRender", "")>>))
       /\ lastOp' = [name |-> "render", arg |-> Undefined]
       /\ ret' = IF ok THEN RetChart ELSE Ret("BadArgumentException", Undefined, FALSE, NoRef)
       /\ trace' = <<>>
       /\ UNCHANGED <<filterState, anchorState, drawState, _group, _mandatoryAttributesList,
                      _transitionDuration, _svg, _legend, _width, _height, pending,
                      _commitHandler, commits>>

(***************************************************************************)
(* The default handlers called on their own, on an array the caller holds  *)
(* (chart.filterHandler()(dimension, list), chart.hasFilterHandler()(list, *)
(* v), ...).  `pre` keeps the array as it was before the call.             *)
(***************************************************************************)
HandlerCall(name, arg, list, dim, r, tr) ==
    /\ held # NoRef
    /\ Len(list) <= MaxFilters
    /\ pre' = heap[held]
    /\ heap' = [heap EXCEPT ![held] = list]
    /\ dimFilter' = dim
    /\ lastOp' = [name |-> name, arg |-> arg]
    /\ ret' = r
    /\ trace' = tr
    /\ UNCHANGED <<_filters, held, dimension, _filterHandler, anchorState, drawState, controls, lifecycle>>

\* _defaultFilterHandler(dimension, filters), lines 29-54: the calls the
\* dimension receives are the trace, the array given is what is returned
callFilterHandler ==
    LET dim == _defaultFilterHandler(heap[held])
    IN HandlerCall("_defaultFilterHandler", Undefined, heap[held], dim,
                   Ret("array", Undefined, FALSE, held),
                   <<Event(dim.call, Undefined, heap[held], dim)>>)

\* _defaultHasFilterHandler(filters, filter), lines 56-61
callHasFilterHandler(q) ==
    HandlerCall("_defaultHasFilterHandler", q, heap[held], dimFilter,
                Ret("boolean", Undefined, _defaultHasFilterHandler(heap[held], q), NoRef), <<>>)

\* _defaultAddFilterHandler(filters, filter), lines 73-76
callAddFilterHandler(v) ==
    HandlerCall("_defaultAddFilterHandler", v, _defaultAddFilterHandler(heap[held], v), dimFilter,
                Ret("array", Undefined, FALSE, held), <<>>)

\* _defaultRemoveFilterHandler(filters, filter), lines 63-71
callRemoveFilterHandler(v) ==
    HandlerCall("_defaultRemoveFilterHandler", v, _defaultRemoveFilterHandler(heap[held], v), dimFilter,
                Ret("array", Undefined, FALSE, held), <<>>)

\* the arrays a caller may hand to a handler
Lists == SeqsUpTo(Values, MaxFilters)

(***************************************************************************)
(* State after the constructor, lines 130-204.                             *)
(***************************************************************************)
Constructed(type) ==
    /\ chartType = type
    /\ _ordering = "key"
    /\ data = <<>>
    /\ ordered = <<>>
    /\ _ringSizes = [policy |-> "default", out |-> <<>>]
    /\ _widthCalc = _defaultWidthCalc
    /\ _heightCalc = _defaultHeightCalc
    /\ boundingClientRect = [width |-> 0, height |-> 0]
    /\ box = NoBox
    /\ whiskerIndices = <<>>
    /\ classes = <<>>
    /\ heap = [i \in ArrayIds |-> <<>>]
    /\ _filters = 1
    /\ held = NoRef
    /\ dimension = "undefined"
    /\ dimFilter = NoCall
    /\ _filterHandler = "default"
    /\ _anchor = "undefined"
    /\ _root = "undefined"
    /\ _isChild = "undefined"
    /\ _chartGroup = "undefined"
    /\ registry = {}
    /\ chartClass = FALSE
    /\ controls = FALSE
    /\ lastOp = [name |-> "constructor", arg |-> Undefined]
    /\ pre = <<>>
    /\ ret = RetChart
    /\ trace = <<>>
    /\ _group = "undefined"
    /\ _mandatoryAttributesList = <<"dimension", "group">>
    /\ _transitionDuration = 750
    /\ _svg = "undefined"
    /\ _legend = "undefined"
    /\ _width = Undefined
    /\ _height = Undefined
    /\ history = <<>>
    /\ pending = {}
    /\ _commitHandler = "undefined"
    /\ commits = <<>>

\* a BaseMixin
Init == Constructed("BaseMixin")

\* the chart is built on a selector in its default group, as the chart
\* constructors do, and then configured and filtered
Next ==
    \/ anchor("selector", "undefined") /\ UNCHANGED <<pre, lifecycle>>
    \/ \E d \in Dimensions : configure(d) /\ UNCHANGED <<pre, lifecycle>>
    \/ \E fn \in FilterHandlers : filterHandler(fn) /\ UNCHANGED <<pre, lifecycle>>
    \/ \E arg \in FilterArgs : filter(arg) /\ UNCHANGED <<pre, lifecycle>>
    \/ filterAll /\ UNCHANGED <<pre, lifecycle>>
    \/ \E arg \in FilterArgs : replaceFilter(arg) /\ UNCHANGED <<pre, lifecycle>>
    \/ filterGet /\ UNCHANGED <<pre, lifecycle>>
    \/ \E q \in {Undefined} \cup Values : hasFilter(q) /\ UNCHANGED <<pre, lifecycle>>

Spec == Init /\ [][Next]_vars

\* the values a caller who mutates the list works with
AliasValues == { Num(1), FilterObj(<<Str(<<97>>), Str(<<98>>)>>, "HierarchyFilter") }

\* a chart bound to a crossfilter dimension, and a caller that keeps the array
\* filters() returned and mutates it in place between the chart's own calls
NextAlias ==
    \/ anchor("selector", "undefined") /\ UNCHANGED <<pre, lifecycle>>
    \/ configure("crossfilter") /\ UNCHANGED <<pre, lifecycle>>
    \/ \E arg \in {Null} \cup AliasValues : filter(arg) /\ UNCHANGED <<pre, lifecycle>>
    \/ filterAll /\ UNCHANGED <<pre, lifecycle>>
    \/ \E arg \in AliasValues : replaceFilter(arg) /\ UNCHANGED <<pre, lifecycle>>
    \/ filterGet /\ UNCHANGED <<pre, lifecycle>>
    \/ \E q \in {Undefined} \cup AliasValues : hasFilter(q) /\ UNCHANGED <<pre, lifecycle>>
    \/ filters /\ UNCHANGED <<pre, lifecycle>>
    \/ \E v \in AliasValues : callerPush(v) /\ UNCHANGED <<pre, lifecycle>>
    \/ callerPop /\ UNCHANGED <<pre, lifecycle>>

SpecAlias == Init /\ [][NextAlias]_vars

\* single toggles and resets, remembering the list each call started from
NextToggle ==
    \/ anchor("selector", "undefined") /\ UNCHANGED <<pre, lifecycle>>
    \/ configure("crossfilter") /\ UNCHANGED <<pre, lifecycle>>
    \/ \E arg \in {Null} \cup Values : filter(arg) /\ pre' = Filters /\ UNCHANGED lifecycle
    \/ filterAll /\ pre' = Filters /\ UNCHANGED lifecycle
    \/ filterGet /\ UNCHANGED <<pre, lifecycle>>

SpecToggle == Init /\ [][NextToggle]_vars

\* a chart that is anchored, configured, and rendered and redrawn under the
\* default transition duration while the transitions of earlier calls may
\* still be running
NextRender ==
    \/ anchor("selector", "undefined") /\ UNCHANGED <<pre, lifecycle>>
    \/ \E g \in {"undefined", "group"} : group(g) /\ UNCHANGED pre
    \/ \E list \in MandatoryLists \ {<<>>} : _mandatoryAttributes(list) /\ UNCHANGED pre
    \/ \E l \in {"undefined", "legend"} : legend(l) /\ UNCHANGED pre
    \/ resetSvg /\ UNCHANGED pre
    \/ render /\ UNCHANGED pre
    \/ redraw /\ UNCHANGED pre
    \/ \E p \in pending : TransitionEnd(p) /\ UNCHANGED pre

SpecRender == Init /\ [][NextRender]_vars

\* calls that overlap: a chart with an svg and no mandatory attribute is
\* rendered and redrawn while earlier transitions run, and every transition
\* that was issued ends
NextOverlap ==
    \/ anchor("selector", "undefined") /\ UNCHANGED <<pre, lifecycle>>
    \/ \E list \in {<<>>, <<"group">>} : _mandatoryAttributes(list) /\ UNCHANGED pre
    \/ \E duration \in Durations : transitionDuration(duration) /\ UNCHANGED pre
    \/ resetSvg /\ UNCHANGED pre
    \/ render /\ UNCHANGED pre
    \/ redraw /\ UNCHANGED pre
    \/ \E p \in pending : TransitionEnd(p) /\ UNCHANGED pre

SpecOverlap == Init /\ [][NextOverlap]_vars

SpecRenderFair == SpecOverlap /\ WF_vars(\E p \in pending : TransitionEnd(p) /\ UNCHANGED pre)

\* a chart that is given, or not, the dimension, the group and the list of
\* mandatory attributes, and rendered
NextMandatory ==
    \/ anchor("selector", "undefined") /\ UNCHANGED <<pre, lifecycle>>
    \/ \E d \in {"undefined", "crossfilter"} : configure(d) /\ UNCHANGED <<pre, lifecycle>>
    \/ \E g \in {"undefined", "group"} : group(g) /\ UNCHANGED pre
    \/ \E list \in MandatoryLists : _mandatoryAttributes(list) /\ UNCHANGED pre
    \/ \E l \in {"undefined", "legend"} : legend(l) /\ UNCHANGED pre
    \/ filter(Num(1)) /\ UNCHANGED <<pre, lifecycle>>
    \/ render /\ UNCHANGED pre

SpecMandatory == Init /\ [][NextMandatory]_vars

\* a chart that is anchored and moved between chart groups, and asks its
\* group to render and redraw
NextGroup ==
    \/ \E parent \in Parents, g \in ChartGroups : anchor(parent, g) /\ UNCHANGED <<pre, lifecycle>>
    \/ \E g \in ChartGroups : chartGroup(g) /\ UNCHANGED pre
    \/ chartGroupGet /\ UNCHANGED pre
    \/ redrawGroup("ok") /\ UNCHANGED pre
    \/ renderGroup("ok") /\ UNCHANGED pre

\* a chart in a group that asks the group to render and redraw, with and
\* without a commit handler
NextCommit ==
    \/ \E g \in ChartGroups : anchor("selector", g) /\ UNCHANGED <<pre, lifecycle>>
    \/ \E h \in CommitHandlers : commitHandler(h) /\ UNCHANGED pre
    \/ \E run \in HandlerRuns : redrawGroup(run) /\ UNCHANGED pre
    \/ \E run \in HandlerRuns : renderGroup(run) /\ UNCHANGED pre
    \/ \E i \in 1..MaxRequests, error \in BOOLEAN : CommitCallback(i, error) /\ UNCHANGED pre

SpecCommit == Init /\ [][NextCommit]_vars

SpecGroup == Init /\ [][NextGroup]_vars



\* a chart whose ordering accessor is set and whose group is put in order
NextOrdering ==
    \/ \E fn \in OrderingAccessors : ordering(fn) /\ UNCHANGED pre
    \/ \E d \in DataSets : computeOrderedGroups(d) /\ UNCHANGED pre

SpecOrdering == Init /\ [][NextOrdering]_vars

\* the filters a click on a box and on an outermost slice toggle, and a range
BoxFilters == { Num(1), Num(2), Str(<<49>>), Str(<<98>>), FilterObj(<<Num(1), Num(2)>>, "RangedFilter") }
SliceFilters ==
    { FilterObj(<<Str(<<97>>), Str(<<98>>)>>, "HierarchyFilter"),
      FilterObj(<<Str(<<98>>), Str(<<97>>)>>, "HierarchyFilter"),
      FilterObj(<<Str(<<98>>), Str(<<98>>)>>, "HierarchyFilter") }

\* an ordinal box plot or a sunburst chart
InitSelect == Constructed("BoxPlot") \/ Constructed("SunburstChart")

\* the chart is filtered and drawn again
NextSelect ==
    \/ /\ chartType = "BoxPlot"
       /\ \E arg \in {Null} \cup BoxFilters : filter(arg) /\ UNCHANGED <<pre, lifecycle>>
    \/ /\ chartType = "SunburstChart"
       /\ \E arg \in {Null} \cup SliceFilters : filter(arg) /\ UNCHANGED <<pre, lifecycle>>
    \/ \E brush \in BOOLEAN : plotData(TRUE, brush) /\ UNCHANGED pre
    \/ drawSunburst /\ UNCHANGED pre

SpecSelect == InitSelect /\ [][NextSelect]_vars

\* a sunburst chart whose ring sizes are configured and which is rendered
NextRings ==
    \/ \E p \in RingPolicies : ringSizes(p) /\ UNCHANGED pre
    \/ renderSunburst /\ UNCHANGED pre

SpecRings == Constructed("SunburstChart") /\ [][NextRings]_vars

\* scalar filter values: 1, 2, '1' (equal to 1 under <= and >=) and 'a'
Scalars == { Num(1), Num(2), Str(<<49>>), Str(<<97>>) }

\* [[v1,...,vn]] of scalars
ScalarLists == { Arr(<<Arr(vs)>>) : vs \in SeqsUpTo(Scalars, MaxToggle) \ {<<>>} }

\* a chart with the default handlers that is filtered with scalar values
NextScalar ==
    \/ configure("crossfilter") /\ UNCHANGED <<pre, lifecycle>>
    \/ \E arg \in {Null} \cup Scalars \cup ScalarLists : filter(arg) /\ pre' = Filters /\ UNCHANGED lifecycle
    \/ \E arg \in Scalars : replaceFilter(arg) /\ pre' = Filters /\ UNCHANGED lifecycle

SpecScalar == Init /\ [][NextScalar]_vars

\* two sibling paths, a path that is a prefix of the first, a raw number and
\* a range, and the keys of the records of a dataset
UnionValues ==
    { FilterObj(<<Str(<<97>>), Str(<<98>>)>>, "HierarchyFilter"),
      FilterObj(<<Str(<<98>>), Str(<<97>>)>>, "HierarchyFilter"),
      FilterObj(<<Str(<<97>>)>>, "HierarchyFilter"),
      FilterObj(<<Num(1), Num(2)>>, "RangedFilter"),
      Num(2) }

Keys ==
    { Arr(<<Str(<<97>>), Str(<<98>>)>>), Arr(<<Str(<<98>>), Str(<<97>>)>>),
      Arr(<<Str(<<97>>), Str(<<97>>)>>), Num(1), Num(2), Str(<<50>>), Num(3) }

\* the records the dimension lets through after a filterFunction call
Passing == { d \in Keys : filterFunctionPredicate(dimFilter.arg, d) }

\* a chart on a crossfilter dimension whose filters are toggled one by one
NextUnion ==
    \/ configure("crossfilter") /\ UNCHANGED <<pre, lifecycle>>
    \/ \E arg \in {Null} \cup UnionValues : filter(arg) /\ pre' = Filters /\ UNCHANGED lifecycle

SpecUnion == Init /\ [][NextUnion]_vars

\* a chart bound to a crossfilter dimension, and a caller who holds an array
\* of filters and applies the default handlers to it
InitHandlers ==
    \E list \in Lists :
        /\ heap = [i \in ArrayIds |-> IF i = 2 THEN list ELSE <<>>]
        /\ _filters = 1
        /\ held = 2
        /\ chartType = "BaseMixin"
        /\ _ordering = "key"
        /\ data = <<>>
        /\ ordered = <<>>
        /\ _ringSizes = [policy |-> "default", out |-> <<>>]
        /\ _widthCalc = _defaultWidthCalc
        /\ _heightCalc = _defaultHeightCalc
        /\ boundingClientRect = [width |-> 0, height |-> 0]
        /\ box = NoBox
        /\ whiskerIndices = <<>>
        /\ classes = <<>>
        /\ dimension = "crossfilter"
        /\ dimFilter = NoCall
        /\ _filterHandler = "default"
        /\ _anchor = "undefined"
        /\ _root = "undefined"
        /\ _isChild = "undefined"
        /\ _chartGroup = "undefined"
        /\ registry = {}
        /\ chartClass = FALSE
        /\ controls = FALSE
        /\ lastOp = [name |-> "constructor", arg |-> Undefined]
        /\ pre = <<>>
        /\ ret = RetChart
        /\ trace = <<>>
        /\ _group = "undefined"
        /\ _mandatoryAttributesList = <<"dimension", "group">>
        /\ _transitionDuration = 750
        /\ _svg = "undefined"
        /\ _legend = "undefined"
        /\ _width = Undefined
        /\ _height = Undefined
        /\ history = <<>>
        /\ pending = {}
        /\ _commitHandler = "undefined"
        /\ commits = <<>>

NextHandlers ==
    \/ \E q \in {Undefined, Null} \cup Values : callHasFilterHandler(q)
    \/ \E v \in Values : callAddFilterHandler(v)
    \/ \E v \in Values : callRemoveFilterHandler(v)

SpecHandlers == InitHandlers /\ [][NextHandlers]_vars

\* the caller pushes the array to the dimension through the filter handler
NextFilterHandler == callFilterHandler

SpecFilterHandler == InitHandlers /\ [][NextFilterHandler]_vars

\* a chart that is put in its default group and bound to a dimension, or
\* not, with or without a commit handler, and whose elements are clicked
NextClick ==
    \/ anchor("selector", "undefined") /\ UNCHANGED <<pre, lifecycle>>
    \/ configure("crossfilter") /\ UNCHANGED <<pre, lifecycle>>
    \/ \E h \in CommitHandlers : commitHandler(h) /\ UNCHANGED pre
    \/ \E datum \in ClickData, run \in HandlerRuns : onClick(datum, run) /\ pre' = Filters
    \/ \E i \in 1..MaxRequests, error \in BOOLEAN : CommitCallback(i, error) /\ UNCHANGED pre

SpecClick == Init /\ [][NextClick]_vars

\* what filter() may be given where a wrapper is looked for: 1, [1,2],
\* [[1,2]], [[1],[2]], [[1],2], [], and a RangedTwoDimensionalFilter, which is
\* an array of two arrays that carries isFiltered
WrapperArgs ==
    { Num(1),
      Arr(<<Num(1), Num(2)>>),
      Arr(<<Arr(<<Num(1), Num(2)>>)>>),
      Arr(<<Arr(<<Num(1)>>), Arr(<<Num(2)>>)>>),
      Arr(<<Arr(<<Num(1)>>), Num(2)>>),
      Arr(<<>>),
      FilterObj(<<Arr(<<Num(1), Num(1)>>), Arr(<<Num(2), Num(2)>>)>>, "RangedTwoDimensionalFilter") }

\* a chart that is filtered with arrays of every shape
NextWrapper ==
    \/ configure("crossfilter") /\ UNCHANGED <<pre, lifecycle>>
    \/ \E arg \in {Null} \cup WrapperArgs : filter(arg) /\ pre' = Filters /\ UNCHANGED lifecycle

SpecWrapper == Init /\ [][NextWrapper]_vars

\* an anchored chart whose size is set, read and reset by render while the
\* anchor element changes its size
NextSize ==
    \/ anchor("selector", "undefined") /\ UNCHANGED <<pre, lifecycle>>
    \/ \E w \in SizeArgs : width(w) /\ UNCHANGED pre
    \/ \E h \in SizeArgs : height(h) /\ UNCHANGED pre
    \/ widthGet /\ UNCHANGED pre
    \/ heightGet /\ UNCHANGED pre
    \/ \E side \in ElementSides : resize(side, side) /\ UNCHANGED pre
    \/ render /\ UNCHANGED pre

SpecSize == Init /\ [][NextSize]_vars

\* a box plot that draws one box, of any kind, and computes its whiskers
NextWhiskers == box = NoBox /\ \E b \in Boxes : whiskers(b) /\ UNCHANGED pre

SpecWhiskers == Constructed("BoxPlot") /\ [][NextWhiskers]_vars

\* the ranges a brush leaves as a filter, [1,2), [2,3) and [1,3), and the
\* key a click toggles
BrushFilters ==
    { FilterObj(<<Num(1), Num(2)>>, "RangedFilter"), FilterObj(<<Num(2), Num(3)>>, "RangedFilter"),
      FilterObj(<<Num(1), Num(3)>>, "RangedFilter"), Num(2) }

\* a box plot on a linear scale that is filtered and drawn again, with the
\* brush of the chart or of its parent on, or with neither
NextBrush ==
    \/ \E arg \in {Null} \cup BrushFilters : filter(arg) /\ UNCHANGED <<pre, lifecycle>>
    \/ \E brush \in BOOLEAN : plotData(FALSE, brush) /\ UNCHANGED pre

SpecBrush == Constructed("BoxPlot") /\ [][NextBrush]_vars

(***************************************************************************)
(* Properties.                                                             *)
(***************************************************************************)
\* two values are equal the way `a <= b && a >= b` decides it: as strings when
\* both stringify, as numbers otherwise
EqualAsJs(a, b) ==
    LET pa == ToPrimitive(a)
        pb == ToPrimitive(b)
    IN IF pa.t = "str" /\ pb.t = "str" THEN pa.s = pb.s
       ELSE ToNumber(pa) # <<>> /\ ToNumber(pa) = ToNumber(pb)

Without(list, i) == [j \in 1..(Len(list) - 1) |-> IF j < i THEN list[j] ELSE list[j + 1]]

IsFilterOf(op, arg) == op.name = "filter" /\ op.arg = arg

\* C1: with the default handlers filter(v) for a single value v removes the
\* (first) entry equal to v and keeps every other entry in place when v is
\* active, appends v behind every prior entry otherwise, and returns the chart.
ToggleAddsOrRemoves ==
    [][ (lastOp'.name = "filter" /\ lastOp'.arg \in Values /\ _filterHandler = "default") =>
        LET v == lastOp'.arg
            before == Filters
            after == Filters'
        IN /\ ret'.k = "chart"
           /\ IF \E i \in 1..Len(before) : EqualAsJs(before[i], v)
              THEN \E i \in 1..Len(before) :
                      /\ EqualAsJs(before[i], v)
                      /\ \A j \in 1..(i - 1) : ~EqualAsJs(before[j], v)
                      /\ after = Without(before, i)
              ELSE after = before \o <<v>> ]_vars

\* a toggle took an active value out of a list and left two other entries
ToggleRemovedOne ==
    /\ lastOp.name = "filter"
    /\ lastOp.arg \in Values
    /\ _filterHandler = "default"
    /\ Len(Filters) = 2
    /\ \A i \in 1..Len(Filters) : ~EqualAsJs(Filters[i], lastOp.arg)

\* C2: when v is not active, filter(v) followed by filter(v) gives back the
\* list the first call started from; from no filter at all, filter() is null
\* again after the second call.
ToggleSymmetry ==
    [][ ( /\ lastOp.name = "filter" /\ lastOp.arg \in Values
          /\ ~(\E i \in 1..Len(pre) : EqualAsJs(pre[i], lastOp.arg))
          /\ lastOp'.name = "filter" /\ lastOp'.arg = lastOp.arg ) =>
        ( /\ Filters' = pre
          /\ (pre = <<>> => FirstFilter(Filters') = Null) ) ]_vars

\* the second of two filter(v) calls has run on a list that held two other entries
ToggledTwice ==
    /\ lastOp.name = "filter"
    /\ lastOp.arg \in Values
    /\ Len(pre) = 3
    /\ pre[3] = lastOp.arg
    /\ Filters = SubSeq(pre, 1, 2)

\* C3: after filter(null) or filterAll() the filter list is empty, hasFilter()
\* is false, filter() is null and the bound dimension has been cleared with
\* dimension.filter(null).
ResetClears ==
    (lastOp.name = "filterAll" \/ IsFilterOf(lastOp, Null)) =>
        /\ Filters = <<>>
        /\ ~hasFilterOn(Filters, Undefined)
        /\ FirstFilter(Filters) = Null
        /\ (dimension = "crossfilter" => dimFilter = [call |-> "filter", arg |-> <<>>])

\* filterAll() has cleared a list of two filters and the dimension
ResetAfterTwo ==
    /\ lastOp.name = "filterAll"
    /\ Len(pre) = 2
    /\ Filters = <<>>
    /\ dimension = "crossfilter"
    /\ dimFilter.call = "filter"


\* the positions of the entries of a trace that are of kind ev
At(tr, ev) == { i \in 1..Len(tr) : tr[i].ev = ev }

\* the list one filter(v) call leaves, v a single value
ToggledList(list, v) ==
    LET hits == { i \in 1..Len(list) : EqualAsJs(list[i], v) }
    IN IF hits = {} THEN list \o <<v>>
       ELSE Without(list, CHOOSE i \in hits : \A j \in hits : i <= j)

RECURSIVE ToggledInTurn(_, _)
ToggledInTurn(list, vs) ==
    IF Len(vs) = 0 THEN list ELSE ToggledInTurn(ToggledList(list, Head(vs)), Tail(vs))

\* the list filter(arg) hands to the filter handler
Mutated(list, arg) ==
    IF arg = Null THEN <<>>
    ELSE IF IsToggleList(arg) THEN ToggledInTurn(list, arg.e[1].e)
    ELSE ToggledList(list, arg)

\* the list left by the calls filter(v1); ...; filter(vn) made one after another
RECURSIVE OneByOne(_, _, _)
OneByOne(h, r, vs) ==
    IF Len(vs) = 0 THEN h[r]
    ELSE LET res == FilterCall(h, r, Head(vs)) IN OneByOne(res.h, res.r, Tail(vs))

\* C4: filter([[v1,...,vn]]) leaves the list that filter(v1); ...; filter(vn)
\* leave, each toggle seeing the earlier ones, while the filter handler is
\* applied to the dimension once and filtered fires once, with the wrapper.
ToggleListIsOneByOne ==
    [][ (lastOp'.name = "filter" /\ IsToggleList(lastOp'.arg) /\ _filterHandler = "default") =>
        /\ Filters' = OneByOne(heap, _filters, lastOp'.arg.e[1].e)
        /\ Filters' = ToggledInTurn(Filters, lastOp'.arg.e[1].e)
        /\ Cardinality(At(trace', "filterHandler")) = (IF dimension = "crossfilter" THEN 1 ELSE 0)
        /\ Cardinality(At(trace', "filtered")) = 1
        /\ \A i \in At(trace', "filtered") : trace'[i].arg = lastOp'.arg ]_vars

\* a wrapper of two values has been toggled into a bound dimension
ToggleListOfTwo ==
    /\ lastOp.name = "filter"
    /\ IsToggleList(lastOp.arg)
    /\ Len(lastOp.arg.e[1].e) = 2
    /\ lastOp.arg.e[1].e[1] # lastOp.arg.e[1].e[2]
    /\ _filterHandler = "default"
    /\ dimension = "crossfilter"
    /\ Len(Filters) = 3
    /\ Cardinality(At(trace, "filterHandler")) = 1

\* C5: filter(arg) pushes the list it has toggled to the bound dimension
\* through the filter handler; what the handler returns becomes the chart's
\* filter list, and when it returns nothing the toggled list is kept.
HandlerResultIsAuthoritative ==
    [][ (lastOp'.name = "filter" /\ dimension = "crossfilter") =>
        /\ Cardinality(At(trace', "filterHandler")) = 1
        /\ \A i \in At(trace', "filterHandler") :
              /\ trace'[i].list = Mutated(Filters, lastOp'.arg)
              /\ trace'[i].dim = dimFilter'
              /\ Filters' = IF trace'[i].arg = Undefined THEN trace'[i].list ELSE trace'[i].arg.e ]_vars

\* a handler has returned a list other than the one it was given
HandlerNormalised ==
    /\ lastOp.name = "filter"
    /\ dimension = "crossfilter"
    /\ _filterHandler = "keepLast"
    /\ Len(trace) > 0
    /\ trace[1].ev = "filterHandler"
    /\ Len(trace[1].list) = 2
    /\ Filters = <<trace[1].list[2]>>

ControlsFollowFilters ==
    (lastOp.name \in {"filter", "replaceFilter"} /\ _root # "undefined") =>
        (controls <=> Len(Filters) > 0)

\* a reset through filter(null) has hidden the controls of an anchored chart
\* that a custom filter handler serves
ControlsHidden ==
    /\ IsFilterOf(lastOp, Null)
    /\ _root = "ownRoot"
    /\ dimension = "crossfilter"
    /\ _filterHandler = "keepLast"
    /\ ~controls
    /\ Len(trace) = 3
    /\ trace[3].ev = "turnOffControls"

\* C8: replaceFilter(v) leaves the list that filter(null); filter(v) leave,
\* [v] for a single value, in one operation: the filter handler is applied to
\* the dimension once, with the final list and never with the empty list in
\* between, and filtered fires once.
ReplaceIsOneOperation ==
    [][ (lastOp'.name = "replaceFilter" /\ _filterHandler = "default") =>
        /\ Filters' = OneByOne(heap, _filters, <<Null, lastOp'.arg>>)
        /\ (lastOp'.arg \in Values => Filters' = <<lastOp'.arg>>)
        /\ Cardinality(At(trace', "filterHandler")) = (IF dimension = "crossfilter" THEN 1 ELSE 0)
        /\ \A i \in At(trace', "filterHandler") : trace'[i].list = Filters'
        /\ Cardinality(At(trace', "filtered")) = 1
        /\ \A i \in At(trace', "filtered") : trace'[i].arg = lastOp'.arg ]_vars

\* replaceFilter(v) has put [v] into a bound dimension with one handler call
ReplacedByOne ==
    /\ lastOp.name = "replaceFilter"
    /\ lastOp.arg \in Values
    /\ _filterHandler = "default"
    /\ dimension = "crossfilter"
    /\ Filters = <<lastOp.arg>>
    /\ dimFilter.arg = Filters
    /\ Len(trace) = 3

\* C9: filter() returns the first entry of the list, and null exactly when
\* the list is empty; hasFilter() is true exactly when the list is not empty;
\* hasFilter(v) is true exactly when some entry equals v.
ReadViewsAgree ==
    /\ (lastOp.name = "filter()" =>
           /\ ret.k = "value"
           /\ (Len(Filters) > 0 => ret.val = Filters[1])
           /\ (ret.val = Null <=> Len(Filters) = 0))
    /\ (lastOp.name = "hasFilter" /\ lastOp.arg = Undefined =>
           /\ ret.k = "boolean"
           /\ (ret.b <=> Len(Filters) > 0))
    /\ (lastOp.name = "hasFilter" /\ lastOp.arg \in Values =>
           /\ ret.k = "boolean"
           /\ (ret.b <=> \E i \in 1..Len(Filters) : EqualAsJs(Filters[i], lastOp.arg)))

\* hasFilter('1') has found the number 1 behind another entry
HasFilterCoerces ==
    /\ lastOp.name = "hasFilter"
    /\ lastOp.arg = Str(<<49>>)
    /\ Len(Filters) = 2
    /\ Filters[2] = Num(1)
    /\ ret.b

\* C10: filters() returns the chart's own array, not a copy: what the caller
\* pushes onto it right away is in the list that the chart's hasFilter(),
\* filter() and filters() read next.
FiltersIsLive ==
    [][ /\ (lastOp'.name = "filters" =>
               /\ ret'.k = "array"
               /\ ret'.ref = _filters'
               /\ held' = _filters'
               /\ Filters' = Filters)
        /\ (lastOp.name = "filters" /\ lastOp'.name = "push" =>
               /\ Filters' = Filters \o <<lastOp'.arg>>
               /\ hasFilterOn(Filters', lastOp'.arg)
               /\ FirstFilter(Filters') = (Filters \o <<lastOp'.arg>>)[1]) ]_vars

\* the caller has pushed a value the chart already held onto the live list
PushedOntoLive ==
    /\ lastOp.name = "push"
    /\ held = _filters
    /\ Len(Filters) = 2
    /\ Filters[1] = Filters[2]
    /\ Filters[2] = lastOp.arg

(***************************************************************************)
(* Properties of the render / redraw lifecycle.                            *)
(***************************************************************************)
\* the order of the steps of a full render and of a redraw
RenderOrder == <<"preRender", "checkForMandatoryAttributes", "_doRender", "legend.render",
                 "pretransition", "transition", "renderlet", "postRender">>
RedrawOrder == <<"sizeSvg", "preRedraw", "_doRedraw", "legend.render",
                 "pretransition", "transition", "renderlet", "postRedraw">>

Position(order, ev) == CHOOSE i \in 1..Len(order) : order[i] = ev

\* every step is one of order's, and no step comes before a step that order
\* puts in front of it; only the check of one attribute after another repeats
FollowsOrder(order, steps) ==
    /\ \A i \in 1..Len(steps) : \E k \in 1..Len(order) : order[k] = steps[i].ev
    /\ \A i, j \in 1..Len(steps) :
          i < j => \/ Position(order, steps[i].ev) < Position(order, steps[j].ev)
                   \/ /\ steps[i].ev = "checkForMandatoryAttributes"
                      /\ steps[j].ev = "checkForMandatoryAttributes"

Times(steps, ev) == Cardinality({ i \in 1..Len(steps) : steps[i].ev = ev })

IsPending(id) == \E p \in pending : p.id = id

\* the step taken is a call of render() or redraw() (kind)
IsCall(h, hh, kind) == Len(hh) = Len(h) + 1 /\ hh[Len(hh)].kind = kind

\* C11: a render() that passes the mandatory attribute check runs on a reset
\* size cache and takes its steps in the order preRender, attribute checks,
\* draw routine, legend (when one is attached), pretransition, transition
\* (when one is issued), renderlet, postRender: each of them once, every
\* mandatory attribute checked, renderlet and postRender at the latest when
\* the transition has ended, and postRender never before renderlet.
RenderRunsInOrder ==
    /\ [](\A id \in 1..Len(history) :
            LET c == history[id] IN
            (c.kind = "render" /\ c.ok) =>
               /\ c.size = <<Undefined, Undefined>>
               /\ FollowsOrder(RenderOrder, c.steps)
               /\ \A ev \in {"preRender", "_doRender", "pretransition"} : Times(c.steps, ev) = 1
               /\ Times(c.steps, "legend.render") <= 1
               /\ Times(c.steps, "transition") <= 1
               /\ IF IsPending(id)
                  THEN /\ Times(c.steps, "transition") = 1
                       /\ Times(c.steps, "renderlet") = 0
                       /\ Times(c.steps, "postRender") = 0
                  ELSE /\ Times(c.steps, "renderlet") = 1
                       /\ Times(c.steps, "postRender") = 1)
    /\ [][ (IsCall(history, history', "render") /\ ret'.k = "chart") =>
           LET c == history'[Len(history')] IN
           /\ _width' = Undefined /\ _height' = Undefined
           /\ Times(c.steps, "checkForMandatoryAttributes") = Len(_mandatoryAttributesList)
           /\ Times(c.steps, "legend.render") = (IF _legend # "undefined" THEN 1 ELSE 0)
           /\ Times(c.steps, "transition") = (IF \E p \in pending' : p.id = Len(history') THEN 1 ELSE 0) ]_vars

\* a render() with a legend has passed the check, issued a transition, seen it
\* end and so taken all eight steps, on a chart that had a size cached
FullRenderDone ==
    \E id \in 1..Len(history) :
        /\ history[id].kind = "render"
        /\ history[id].ok
        /\ Len(history[id].steps) = 8
        /\ ~IsPending(id)
        /\ id > 1 /\ history[id - 1].kind = "redraw" /\ history[id - 1].size[1] = Num(minWidth)

\* the value of a mandatory attribute of the chart: what was given to
\* configure({dimension: ...}) and to group(...)
AttributeSet(a) == IF a = "dimension" THEN dimension # "undefined" ELSE _group # "undefined"

\* C12: render() fails with the InvalidState error exactly when some
\* attribute of the mandatory list is unset at that time; with the dimension
\* and the group both set it passes and reaches the draw routine.
RenderFailsIffAttributeMissing ==
    [][ IsCall(history, history', "render") =>
        LET missing == \E i \in 1..Len(_mandatoryAttributesList) :
                          ~AttributeSet(_mandatoryAttributesList[i])
        IN /\ (ret'.k = "InvalidStateException") <=> missing
           /\ ~missing => Times(history'[Len(history')].steps, "_doRender") = 1 ]_vars

\* C13: a render() that fails the mandatory attribute check has reset the size
\* cache and fired preRender and nothing else: no draw routine, no legend, no
\* pretransition, renderlet or postRender, then or later; the filter list, the
\* dimension and the controls are as they were.
FailedRenderStopsAtCheck ==
    /\ [](\A id \in 1..Len(history) :
            LET c == history[id] IN
            (c.kind = "render" /\ ~c.ok) =>
               /\ c.size = <<Undefined, Undefined>>
               /\ c.steps[1].ev = "preRender"
               /\ Len(c.steps) >= 2
               /\ \A i \in 2..Len(c.steps) : c.steps[i].ev = "checkForMandatoryAttributes"
               /\ ~IsPending(id))
    /\ [][ (IsCall(history, history', "render") /\ ret'.k = "InvalidStateException") =>
           /\ ~history'[Len(history')].ok
           /\ trace' = <<Event("preRender", Undefined, Filters, dimFilter)>>
           /\ _width' = Undefined /\ _height' = Undefined
           /\ UNCHANGED <<heap, _filters, dimFilter, controls>> ]_vars

\* render() has failed on a chart with a legend, a filter and a group, at the
\* check of the first attribute
RenderFailedWithLegend ==
    /\ lastOp.name = "render"
    /\ ret.k = "InvalidStateException"
    /\ _legend = "legend"
    /\ _group = "group"
    /\ Len(Filters) = 1
    /\ Len(history[Len(history)].steps) = 2

\* C14: redraw() sizes the svg, then takes preRedraw, the draw routine, the
\* legend (when one is attached), pretransition, the transition (when one is
\* issued), renderlet and postRedraw in that order, each once; it checks no
\* mandatory attribute, fires neither preRender nor postRender, and never
\* fails for a missing attribute.
RedrawRunsInOrder ==
    /\ [](\A id \in 1..Len(history) :
            LET c == history[id] IN
            c.kind = "redraw" =>
               /\ c.ok
               /\ FollowsOrder(RedrawOrder, c.steps)
               /\ \A ev \in {"sizeSvg", "preRedraw", "_doRedraw", "pretransition"} :
                     Times(c.steps, ev) = 1
               /\ Times(c.steps, "legend.render") <= 1
               /\ IF IsPending(id)
                  THEN /\ Times(c.steps, "transition") = 1
                       /\ Times(c.steps, "renderlet") = 0
                       /\ Times(c.steps, "postRedraw") = 0
                  ELSE /\ Times(c.steps, "renderlet") = 1
                       /\ Times(c.steps, "postRedraw") = 1)
    /\ [][ IsCall(history, history', "redraw") =>
           LET c == history'[Len(history')] IN
           /\ ret'.k = "chart"
           /\ _svg # "undefined" => (_width' = widthOf(_width) /\ _height' = heightOf(_height))
           /\ c.size = <<_width', _height'>>
           /\ Times(c.steps, "legend.render") = (IF _legend # "undefined" THEN 1 ELSE 0) ]_vars

\* a redraw() of a chart with a legend and an unset group has run to the end
\* of its transition, under the default list of mandatory attributes
FullRedrawDone ==
    \E id \in 1..Len(history) :
        /\ history[id].kind = "redraw"
        /\ Len(history[id].steps) = 8
        /\ ~IsPending(id)
        /\ _group = "undefined"
        /\ _mandatoryAttributesList = <<"dimension", "group">>
        /\ history[id].size = <<Num(minWidth), Num(minHeight)>>

\* the events a call fired before it returned
FiredNow(tr, ev) == \E i \in 1..Len(tr) : tr[i].ev = ev

\* the completion event of a call
PostOf(kind) == IF kind = "render" THEN "postRender" ELSE "postRedraw"

\* the statement of C15 as the specification words it: the completion events
\* are fired before the call returns exactly when the duration is 0
CompletionIsSynchronousIffNoDuration ==
    [][ ((IsCall(history, history', "render") \/ IsCall(history, history', "redraw"))
         /\ ret'.k = "chart") =>
        LET id == Len(history')
            post == PostOf(history'[id].kind)
        IN /\ FiredNow(trace', "pretransition")
           /\ (FiredNow(trace', "renderlet") /\ FiredNow(trace', post))
                 <=> (_transitionDuration = 0)
           /\ _transitionDuration > 0 =>
                 /\ ~FiredNow(trace', "renderlet") /\ ~FiredNow(trace', post)
                 /\ \E p \in pending' : p.id = id ]_vars

\* C15: a render() that passes the check and every redraw() fire pretransition
\* before they return; renderlet and the completion event are fired before the
\* call returns exactly when the duration is 0 or the chart has no svg, and
\* otherwise the call returns with its transition issued and the two events
\* are fired when, and only when, that transition ends.
CompletionIsSynchronousIffNoTransition ==
    /\ [][ ((IsCall(history, history', "render") \/ IsCall(history, history', "redraw"))
            /\ ret'.k = "chart") =>
           LET id == Len(history')
               post == PostOf(history'[id].kind)
               issued == \E p \in pending' : p.id = id
           IN /\ FiredNow(trace', "pretransition")
              /\ issued <=> (_transitionDuration > 0 /\ _svg # "undefined")
              /\ IF issued
                 THEN ~FiredNow(trace', "renderlet") /\ ~FiredNow(trace', post)
                 ELSE FiredNow(trace', "renderlet") /\ FiredNow(trace', post) ]_vars
    /\ [][ \A id \in 1..Len(history) :
             LET post == PostOf(history[id].kind) IN
             ( /\ Len(history') >= id
               /\ Times(history'[id].steps, post) > Times(history[id].steps, post) ) =>
                 /\ IsPending(id)
                 /\ lastOp'.name = "transitionEnd"
                 /\ \A p \in pending' : p.id # id
                 /\ trace' = <<Event("renderlet", Undefined, Filters, dimFilter),
                               Event(post, Undefined, Filters, dimFilter)>> ]_vars

\* a redraw() has returned with its transition issued, behind a call whose
\* transition has ended
ReturnedWithTransition ==
    /\ lastOp.name = "redraw"
    /\ IsPending(2)
    /\ ~IsPending(1)
    /\ Times(history[1].steps, "transition") = 1
    /\ ~FiredNow(trace, "renderlet")

\* a call has fired renderlet and then its completion event, once each
Completed(id) ==
    /\ Len(history) >= id
    /\ LET c == history[id]
           n == Len(c.steps)
       IN /\ Times(c.steps, "renderlet") = 1
          /\ Times(c.steps, PostOf(c.kind)) = 1
          /\ c.steps[n - 1].ev = "renderlet"
          /\ c.steps[n].ev = PostOf(c.kind)

\* C16: when every transition that was issued ends, every render() that passed
\* the check and every redraw() is followed by one renderlet and then one
\* completion event of its own, whatever calls are made while its transition
\* runs; no call ever gets a second renderlet or completion event, and a new
\* call takes no pending transition away.
EveryCallCompletes ==
    /\ \A id \in 1..MaxCalls :
          (Len(history) >= id /\ history[id].ok) ~> Completed(id)
    /\ [](\A id \in 1..Len(history) :
            /\ Times(history[id].steps, "renderlet") <= 1
            /\ Times(history[id].steps, PostOf(history[id].kind)) <= 1
            /\ Times(history[id].steps, "postRender") + Times(history[id].steps, "postRedraw") <= 1)
    /\ [][ \A id \in 1..Len(history) :
             /\ Completed(id) => Completed(id)'
             /\ (IsPending(id) /\ lastOp'.name # "transitionEnd") => IsPending(id)' ]_vars

\* the transition of the second call has ended and its events are fired while
\* the transition of the first call, issued before it, is still running
LaterCallCompletedFirst ==
    /\ Len(history) = 2
    /\ IsPending(1)
    /\ ~IsPending(2)
    /\ Times(history[2].steps, "transition") = 1
    /\ Completed(2)
    /\ ~Completed(1)

(***************************************************************************)
(* Properties of the chart group and the commit handler.                   *)
(***************************************************************************)
\* the step taken is a call of redrawGroup() or renderGroup()
IsRequest(c, cc) == Len(cc) = Len(c) + 1

\* C17: when the callback of a commit handler is called with an error, at once
\* or later, the request makes no redrawAll/renderAll call on the chart group,
\* then or afterwards, and logs the error; redrawGroup()/renderGroup() with a
\* commit handler return the chart whatever the handler reports.
CommitErrorSuppressesGroupCall ==
    /\ [](\A i \in 1..Len(commits) :
            commits[i].cb = "error" =>
               /\ commits[i].group = <<>>
               /\ commits[i].logged = <<"error">>)
    /\ [][ (IsRequest(commits, commits') /\ _commitHandler # "undefined") =>
           /\ ret'.k = "chart"
           /\ commits'[Len(commits')].handler ]_vars
    /\ [][ lastOp'.name = "commitCallback" => ret'.k = "undefined" ]_vars

\* on a chart in a group, a handler has reported an error through a callback
\* it had kept, and an earlier request has reached the group
ErrorReportedLater ==
    /\ lastOp.name = "commitCallback"
    /\ _chartGroup # "undefined"
    /\ Len(commits) = 2
    /\ commits[2].cb = "error"
    /\ commits[1].cb = "ok"
    /\ commits[1].group # <<>>

\* C18: with a commit handler a request calls the group's redrawAll/renderAll
\* only when its callback has been called without an error, and then once: not
\* while the callback is kept, not when it is never called; without a commit
\* handler redrawGroup()/renderGroup() on a chart that has a group make the
\* call once before they return, and nothing is added to it later.
GroupCallWaitsForCommit ==
    /\ [](\A i \in 1..Len(commits) :
            /\ Len(commits[i].group) <= 1
            /\ commits[i].handler => (commits[i].group # <<>> => commits[i].cb = "ok")
            /\ ~commits[i].handler => commits[i].cb = "none")
    /\ [][ (IsRequest(commits, commits') /\ _commitHandler = "undefined"
            /\ _chartGroup # "undefined") =>
           LET c == commits'[Len(commits')] IN
           /\ c.group = <<[call |-> AllOf(c.req), on |-> _chartGroup]>>
           /\ ret'.k = "chart" ]_vars
    /\ [][ \A i \in 1..Len(commits) :
             /\ ~commits[i].handler => commits'[i] = commits[i]
             /\ (commits[i].cb = "pending" /\ commits'[i].cb = "ok" /\ _chartGroup # "undefined") =>
                   commits'[i].group = <<[call |-> AllOf(commits[i].req), on |-> _chartGroup]>>
             /\ commits'[i].group # commits[i].group =>
                   (commits[i].cb = "pending" /\ commits'[i].cb = "ok") ]_vars

\* a kept callback has been called without an error and the group render has
\* been issued then; an earlier request without a handler made its call at once
GroupCallAfterCommit ==
    /\ lastOp.name = "commitCallback"
    /\ Len(commits) = 2
    /\ ~commits[1].handler
    /\ commits[1].group = <<[call |-> "redrawAll", on |-> "default"]>>
    /\ commits[2].handler
    /\ commits[2].cb = "ok"
    /\ commits[2].group = <<[call |-> "renderAll", on |-> "default"]>>

\* C19: the first argument of the commit handler is true for renderGroup() and
\* false for redrawGroup().
HandlerFlagTellsRender ==
    \A i \in 1..Len(commits) :
        commits[i].handler => commits[i].isRender = <<commits[i].req = "renderGroup">>

\* C20: after an anchor(parent, group) or chartGroup(group) call that returned
\* the chart, on a chart that is not a child, the chart is registered in the
\* group chartGroup() returns and in no other.
RegisteredInOneGroup ==
    (_isChild = "false" /\ lastOp.name \in {"anchor", "chartGroup"} /\ ret.k = "chart") =>
        registry = {_chartGroup}

\* C21: constructing a chart on a selector, a DOM element or a selection
\* registers it in its chart group (the named one, or the default one when
\* none is given) and in no other, and marks the parent with the chart class;
\* a chart constructed on another chart has that chart's root, is a child and
\* is registered nowhere.
ConstructionRegisters ==
    [][ \A parent \in {"chart", "selector", "element", "selection"}, g \in ChartGroups :
          (lastOp.name = "constructor" /\ anchor(parent, g)) =>
              IF parent = "chart"
              THEN /\ _root' = "parentRoot"
                   /\ _isChild' = "true"
                   /\ registry' = {}
              ELSE /\ registry' = {IF g = "undefined" THEN "default" ELSE g}
                   /\ chartClass'
                   /\ _isChild' = "false" ]_vars

\* a chart was constructed on another chart and nothing else was done
ConstructedAsChild ==
    /\ lastOp.name = "anchor"
    /\ _anchor = "parentAnchor"
    /\ _root = "parentRoot"
    /\ _isChild = "true"
    /\ registry = {}
    /\ ~chartClass

\* C22 as stated: anchor(parent, group) fails with BadArgumentException exactly
\* when parent is no chart, no selector, no element and no selection.
AnchorFailsIffUnrecognised ==
    [][ \A parent \in Parents, g \in ChartGroups :
          anchor(parent, g) =>
              (ret'.k = "BadArgumentException" <=>
                  parent \notin {"chart", "selector", "element", "selection"}) ]_vars

\* C22: anchor(parent, group) fails with BadArgumentException exactly when
\* parent is falsy, and returns the chart for a chart, a selector, an element
\* and a selection.
AnchorFailsIffNoParent ==
    [][ \A parent \in Parents, g \in ChartGroups :
          anchor(parent, g) =>
              /\ ret'.k = "BadArgumentException" <=> parent = "undefined"
              /\ parent \in {"chart", "selector", "element", "selection"} => ret'.k = "chart" ]_vars

\* a truthy parent of another kind got past the argument check: the call
\* failed later, inside d3, with the anchor already assigned
UnrecognisedParentNotRejected ==
    /\ lastOp.name = "anchor"
    /\ _anchor = "other"
    /\ ret.k = "TypeError"

(***************************************************************************)
(* Properties of the default handlers.                                     *)
(***************************************************************************)
\* C23: the default filter handler issues exactly one dimension call:
\* filter(null) for an empty list, filterExact for one entry without
\* isFiltered, filterRange for one RangedFilter entry, filterFunction for
\* every other list; it returns the array it was given, unmodified.
FilterHandlerIssuesOneCall ==
    lastOp.name = "_defaultFilterHandler" =>
        /\ Len(trace) = 1
        /\ trace[1].ev = dimFilter.call
        /\ dimFilter.call =
              CASE pre = <<>> -> "filter"
                [] Len(pre) = 1 /\ pre[1].ft = "none" -> "filterExact"
                [] Len(pre) = 1 /\ pre[1].ft = "RangedFilter" -> "filterRange"
                [] OTHER -> "filterFunction"
        /\ dimFilter.arg = pre
        /\ ret.ref = held
        /\ heap[held] = pre

\* one HierarchyFilter entry was pushed to the dimension as a predicate
OneStructuredFilterPushed ==
    /\ lastOp.name = "_defaultFilterHandler"
    /\ Len(pre) = 1
    /\ pre[1].ft = "HierarchyFilter"
    /\ dimFilter.call = "filterFunction"

\* C25: the default has-filter handler answers a null or undefined query with
\* filters.length > 0 and any other query with whether some entry f has
\* filter <= f and filter >= f; it leaves the list as it was.
HasFilterHandlerAnswers ==
    lastOp.name = "_defaultHasFilterHandler" =>
        /\ ret.b = IF lastOp.arg \in {Null, Undefined}
                   THEN Len(pre) > 0
                   ELSE \E i \in 1..Len(pre) : EqualAsJs(lastOp.arg, pre[i])
        /\ heap[held] = pre

\* a null query on a list that is not empty was answered with true
NullQueryOnActiveList ==
    /\ lastOp.name = "_defaultHasFilterHandler"
    /\ lastOp.arg = Null
    /\ Len(pre) = 2
    /\ ret.b

\* C26: the add handler appends the value behind every entry; the remove
\* handler takes out the first entry equal to the value and nothing else,
\* the other entries keeping their order.
HandlersKeepActivationOrder ==
    /\ lastOp.name = "_defaultAddFilterHandler" => heap[held] = pre \o <<lastOp.arg>>
    /\ lastOp.name = "_defaultRemoveFilterHandler" =>
          IF \E i \in 1..Len(pre) : EqualAsJs(pre[i], lastOp.arg)
          THEN \E i \in 1..Len(pre) :
                  /\ EqualAsJs(pre[i], lastOp.arg)
                  /\ \A j \in 1..(i - 1) : ~EqualAsJs(pre[j], lastOp.arg)
                  /\ heap[held] = Without(pre, i)
          ELSE heap[held] = pre

\* of two entries equal to the value the first one was removed and the
\* second one stayed, behind the entry that was between them
FirstOfTwoRemoved ==
    /\ lastOp.name = "_defaultRemoveFilterHandler"
    /\ lastOp.arg = Num(1)
    /\ pre = <<Str(<<49>>), FilterObj(<<Num(1), Num(2)>>, "RangedFilter"), Num(1)>>
    /\ heap[held] = <<FilterObj(<<Num(1), Num(2)>>, "RangedFilter"), Num(1)>>

\* what one active filter accepts: a structured filter what its isFiltered
\* says, a raw value the keys equal to it
Accepts(f, d) == IF f.ft # "none" THEN isFiltered(f, d) ELSE EqualAsJs(f, d)

\* C24: the predicate pushed to the dataset for the active filters is their
\* union: a record passes iff some active filter accepts its key.  With the
\* two paths a/b and b/a active the records of both pass, and once the first
\* is toggled off exactly the records of the second pass.
PredicateIsUnion ==
    LET ab == FilterObj(<<Str(<<97>>), Str(<<98>>)>>, "HierarchyFilter")
        ba == FilterObj(<<Str(<<98>>), Str(<<97>>)>>, "HierarchyFilter")
    IN (dimFilter.call = "filterFunction" /\ lastOp.name = "filter") =>
        /\ Passing = { d \in Keys : \E i \in 1..Len(Filters) : Accepts(Filters[i], d) }
        /\ Filters = <<ab, ba>> =>
              Passing = { Arr(<<Str(<<97>>), Str(<<98>>)>>), Arr(<<Str(<<98>>), Str(<<97>>)>>) }
        /\ (pre = <<ab, ba>> /\ lastOp.arg = ab) =>
              Passing = { Arr(<<Str(<<98>>), Str(<<97>>)>>) }

\* two paths were filtered and the first was toggled off again: the records
\* of the second are the ones that pass
SecondPathLeft ==
    /\ lastOp = [name |-> "filter", arg |-> FilterObj(<<Str(<<97>>), Str(<<98>>)>>, "HierarchyFilter")]
    /\ pre = << FilterObj(<<Str(<<97>>), Str(<<98>>)>>, "HierarchyFilter"),
                FilterObj(<<Str(<<98>>), Str(<<97>>)>>, "HierarchyFilter") >>
    /\ dimFilter.call = "filterFunction"
    /\ Passing = { Arr(<<Str(<<98>>), Str(<<97>>)>>) }

\* C27: after any sequence of filter(v), filter([[...]]), filter(null) and
\* replaceFilter(v) with scalar values under the default handlers, no two
\* entries of the filter list are equal under <= and >=.
NoEqualEntries ==
    \A i, j \in 1..Len(Filters) :
        (JsLte(Filters[i], Filters[j]) /\ JsGte(Filters[i], Filters[j])) => i = j

\* '1' was given while 1 was active: 1 was taken out, '1' was not added
CoercedTwinToggledOff ==
    /\ lastOp = [name |-> "filter", arg |-> Str(<<49>>)]
    /\ pre = <<Num(1), Num(2)>>
    /\ Filters = <<Num(2)>>

(***************************************************************************)
(* Properties of what the chart draws.                                     *)
(***************************************************************************)
KeysOf(d) == [i \in 1..Len(d) |-> d[i].key]

\* the ordered groups are the records given, each once, with the values of
\* the ordering accessor never going down
SortedByAccessor ==
    /\ Len(ordered) = Len(data)
    /\ \A i \in 1..Len(data) : \E j \in 1..Len(ordered) : ordered[j] = data[i]
    /\ \A i, j \in 1..Len(ordered) :
          i < j => ~JsLt(OrderingOf(_ordering, ordered[j]), OrderingOf(_ordering, ordered[i]))

\* C28 as stated: the ordered groups are the records sorted ascending by the
\* ordering accessor; for a, b, c with the values 3, 2, 1 the default
\* ordering gives [a, b, c] and the accessor d => -d.value gives [c, b, a].
OrderedAsStated ==
    lastOp.name = "_computeOrderedGroups" =>
        /\ SortedByAccessor
        /\ data = <<GroupRecord(97, 3), GroupRecord(98, 2), GroupRecord(99, 1)>> =>
              /\ _ordering = "key" => KeysOf(ordered) = <<97, 98, 99>>
              /\ _ordering = "negValue" => KeysOf(ordered) = <<99, 98, 97>>

\* C28: the ordered groups are the records sorted ascending by the ordering
\* accessor; for a, b, c with the values 1, 2, 3 the default ordering gives
\* [a, b, c] and the accessor d => -d.value gives [c, b, a].
OrderedByAccessor ==
    lastOp.name = "_computeOrderedGroups" =>
        /\ SortedByAccessor
        /\ data = <<GroupRecord(97, 1), GroupRecord(98, 2), GroupRecord(99, 3)>> =>
              /\ _ordering = "key" => KeysOf(ordered) = <<97, 98, 99>>
              /\ _ordering = "negValue" => KeysOf(ordered) = <<99, 98, 97>>

\* the three leaves were put in order by descending value
OrderedByDescendingValue ==
    /\ lastOp.name = "_computeOrderedGroups"
    /\ _ordering = "negValue"
    /\ data = <<GroupRecord(97, 1), GroupRecord(98, 2), GroupRecord(99, 3)>>
    /\ KeysOf(ordered) = <<99, 98, 97>>

\* the classes the nodes have when they were classified by the active filters
Classified(nodes) ==
    /\ DOMAIN classes = nodes
    /\ \A d \in nodes :
          IF Len(Filters) > 0
          THEN IF \E i \in 1..Len(Filters) : EqualAsJs(d, Filters[i])
               THEN classes[d].selected /\ ~classes[d].deselected
               ELSE ~classes[d].selected /\ classes[d].deselected
          ELSE ~classes[d].selected /\ ~classes[d].deselected

ClickFiltersThenRedraws ==
    [][ lastOp'.name = "onClick" =>
          LET key == lastOp'.arg
              seen == At(trace', "commitHandler") \cup At(trace', "redrawAll")
              done == At(trace', "filterHandler") \cup At(trace', "filtered")
          IN /\ Filters' = ToggledList(Filters, key)
             /\ Cardinality(At(trace', "filtered")) = 1
             /\ \A i \in At(trace', "filtered") : trace'[i].arg = key
             /\ Cardinality(At(trace', "filterHandler")) = IF dimension = "crossfilter" THEN 1 ELSE 0
             /\ dimension = "crossfilter" => dimFilter' = _defaultFilterHandler(Filters')
             /\ Len(commits') = Len(commits) + 1
             /\ commits'[Len(commits')].req = "redrawGroup"
             /\ Cardinality(At(trace', "commitHandler")) = IF _commitHandler # "undefined" THEN 1 ELSE 0
             /\ Cardinality(At(trace', "redrawAll")) = Len(commits'[Len(commits')].group)
             /\ Len(commits'[Len(commits')].group) <= 1
             /\ \A i \in seen :
                   /\ trace'[i].list = Filters'
                   /\ trace'[i].dim = dimFilter'
                   /\ \A j \in done : j < i ]_vars

\* a click on the element of key '1' took the filter 1 off a chart that has
\* a dimension and a commit handler, and the group was redrawn on the
\* emptied list
ClickedOffThenRedrawn ==
    /\ lastOp.name = "onClick"
    /\ lastOp.arg = Str(<<49>>)
    /\ pre = <<Num(1)>>
    /\ Filters = <<>>
    /\ dimension = "crossfilter"
    /\ _commitHandler = "handler"
    /\ At(trace, "redrawAll") # {}
    /\ \A i \in At(trace, "redrawAll") : trace[i].list = <<>> /\ trace[i].dim.call = "filter"

(***************************************************************************)
(* Properties of the shapes of the argument of filter().                   *)
(***************************************************************************)
\* an array whose sole element is an array and which carries no isFiltered
IsSoleArrayWrapper(value) ==
    /\ value.t = "arr"
    /\ Len(value.e) = 1
    /\ value.e[1].t = "arr"
    /\ ~HasIsFiltered(value)

\* C32: filter(value) toggles the elements of value[0] one by one exactly
\* when value is an array whose sole element is an array and which carries
\* no isFiltered; every other value that is not null, [[a],[b]] included, is
\* toggled as one unit.
WrapperIffSoleArray ==
    [][ (lastOp'.name = "filter" /\ lastOp'.arg # Null) =>
          Filters' = IF IsSoleArrayWrapper(lastOp'.arg)
                     THEN ToggledInTurn(Filters, lastOp'.arg.e[1].e)
                     ELSE ToggledList(Filters, lastOp'.arg) ]_vars

\* filter([[1],[2]]) on a chart without filters: 1 was toggled on and [2]
\* was dropped
FirstArrayToggledAlone ==
    /\ lastOp.name = "filter"
    /\ lastOp.arg = Arr(<<Arr(<<Num(1)>>), Arr(<<Num(2)>>)>>)
    /\ pre = <<>>
    /\ Filters = <<Num(1)>>

(***************************************************************************)
(* Properties of a chart without a usable dimension.                       *)
(***************************************************************************)
\* C33: on a chart that has no dimension, or a dimension without a filter
\* function, filter(arg) and filterAll() update the chart's own list, fire
\* filtered once with the argument and show or hide the controls under the
\* root by the new list, while no filter handler runs and the dimension
\* receives no call.
NoDimensionNoHandler ==
    [][ (lastOp'.name \in {"filter", "filterAll"} /\ dimension \in {"undefined", "noFilter"}) =>
          LET arg == IF lastOp'.name = "filterAll" THEN Null ELSE lastOp'.arg
          IN /\ Filters' = Mutated(Filters, arg)
             /\ At(trace', "filterHandler") = {}
             /\ dimFilter' = dimFilter
             /\ dimFilter' = NoCall
             /\ Cardinality(At(trace', "filtered")) = 1
             /\ \A i \in At(trace', "filtered") :
                   trace'[i].arg = arg /\ trace'[i].list = Filters'
             /\ controls' = IF _root # "undefined" THEN Len(Filters') > 0 ELSE controls ]_vars

\* 1 was put on the list of an anchored chart whose dimension has no filter
\* function: the controls are shown and the dimension was not called
FilteredWithoutFilterFunction ==
    /\ lastOp.name = "filter"
    /\ dimension = "noFilter"
    /\ _root = "ownRoot"
    /\ Filters = <<Num(1)>>
    /\ controls
    /\ dimFilter = NoCall
    /\ At(trace, "filterHandler") = {}
    /\ At(trace, "filtered") # {}

(***************************************************************************)
(* Properties of the synchronisation of the dimension.                     *)
(***************************************************************************)
\* C34: after every filter, filterAll and replaceFilter call on a chart with
\* a crossfilter dimension and the default filter handler, the call the
\* dimension received last is the one for the chart's current list: the
\* clearing filter(null) iff the list is empty, filterExact iff it is one raw
\* value, filterRange iff it is one RangedFilter, filterFunction otherwise,
\* made with exactly the current entries, its predicate letting through the
\* keys some current entry accepts and no others.
DimensionInSync ==
    (/\ lastOp.name \in {"filter", "filterAll", "replaceFilter"}
     /\ dimension = "crossfilter"
     /\ _filterHandler = "default") =>
        /\ dimFilter.call \in {"filter", "filterExact", "filterRange", "filterFunction"}
        /\ dimFilter.call = "filter" <=> Len(Filters) = 0
        /\ dimFilter.call = "filterExact" <=> (Len(Filters) = 1 /\ ~HasIsFiltered(Filters[1]))
        /\ dimFilter.call = "filterRange" <=> (Len(Filters) = 1 /\ Filters[1].ft = "RangedFilter")
        /\ dimFilter.arg = Filters
        /\ dimFilter.call = "filterFunction" =>
              Passing = { d \in Keys : \E i \in 1..Len(Filters) : Accepts(Filters[i], d) }

\* the path a/b was toggled off a list of three: the dimension holds the
\* union of the two entries that are left and lets the key a/b through no
\* longer
RemovedValueLeftDimension ==
    /\ lastOp = [name |-> "filter", arg |-> FilterObj(<<Str(<<97>>), Str(<<98>>)>>, "HierarchyFilter")]
    /\ dimension = "crossfilter"
    /\ _filterHandler = "default"
    /\ Len(Filters) = 2
    /\ dimFilter.call = "filterFunction"
    /\ dimFilter.arg = Filters
    /\ Arr(<<Str(<<97>>), Str(<<98>>)>>) \notin Passing

(***************************************************************************)
(* Properties of the identity of the filter list.                          *)
(***************************************************************************)
\* C35: with the default handlers a filter(v) toggle changes the chart's
\* list in place: an array a caller got from filters() that is the chart's
\* list before the call is the chart's list after it, with v toggled, and
\* one that is not is left as it was.  filter(null), filterAll() and
\* replaceFilter() give the chart a new array and leave the one the caller
\* holds with the contents it had.
TogglesInPlaceResetsFresh ==
    [][ (held # NoRef /\ _filterHandler = "default") =>
          /\ (lastOp'.name = "filter" /\ lastOp'.arg # Null) =>
                IF held = _filters
                THEN /\ held' = _filters'
                     /\ heap'[held'] = Mutated(heap[held], lastOp'.arg)
                ELSE /\ held' # _filters'
                     /\ heap'[held'] = heap[held]
          /\ (\/ lastOp'.name \in {"filterAll", "replaceFilter"}
              \/ (lastOp'.name = "filter" /\ lastOp'.arg = Null)) =>
                /\ held' # NoRef
                /\ held' # _filters'
                /\ heap'[held'] = heap[held] ]_vars

\* the caller holds the array with 1 and the path a/b in it, and the chart,
\* after replaceFilter(1), a new one with 1 alone
HeldArrayLeftBehind ==
    /\ lastOp = [name |-> "replaceFilter", arg |-> Num(1)]
    /\ held # NoRef
    /\ held # _filters
    /\ heap[held] = <<Num(1), FilterObj(<<Str(<<97>>), Str(<<98>>)>>, "HierarchyFilter")>>
    /\ Filters = <<Num(1)>>

(***************************************************************************)
(* Properties of a failing anchor() call.                                  *)
(***************************************************************************)
\* C36: an anchor(parent, group) call that fails on a falsy parent leaves
\* the chart as it was: its chart group, anchor, root, child flag and the
\* groups it is registered in are those of before the call.
FailedAnchorChangesNothing ==
    [][ (lastOp'.name = "anchor" /\ ret'.k = "BadArgumentException") =>
          /\ _chartGroup' = _chartGroup
          /\ _anchor' = _anchor
          /\ _root' = _root
          /\ _isChild' = _isChild
          /\ registry' = registry ]_vars

\* anchor(undefined, 'group1') failed on a chart anchored in the default
\* group: the chart is registered there still, and its chart group is group1
FailedAnchorMovedChartGroup ==
    /\ lastOp.name = "anchor"
    /\ ret.k = "BadArgumentException"
    /\ _isChild = "false"
    /\ _anchor = "selector"
    /\ registry = {"default"}
    /\ _chartGroup = "group1"

(***************************************************************************)
(* Properties of the width and the height.                                 *)
(***************************************************************************)
\* what the default calculation gives for a side of the anchor element
DefaultSize(side, min) == Num(IF side > min THEN side ELSE min)

\* the part of C37 that is about the cache: a getter that finds a number
\* cached returns it without running the calculator, one that finds none
\* runs the calculator once and caches what it gave; a cached number goes
\* only with a call of the setter of the same side or with render()
SizeIsCached ==
    /\ (lastOp'.name = "width()" /\ ret'.k = "value") =>
          IF _width.t = "num"
          THEN ret'.val = _width /\ _width' = _width /\ trace' = <<>>
          ELSE ret'.val.t = "num" /\ _width' = ret'.val /\ Cardinality(At(trace', "_widthCalc")) = 1
    /\ (lastOp'.name = "height()" /\ ret'.k = "value") =>
          IF _height.t = "num"
          THEN ret'.val = _height /\ _height' = _height /\ trace' = <<>>
          ELSE ret'.val.t = "num" /\ _height' = ret'.val /\ Cardinality(At(trace', "_heightCalc")) = 1
    /\ lastOp'.name \in {"width", "render"} => _width' = Undefined
    /\ lastOp'.name \in {"height", "render"} => _height' = Undefined
    /\ (_width.t = "num" /\ _width' # _width) => lastOp'.name \in {"width", "render"}
    /\ (_height.t = "num" /\ _height' # _height) => lastOp'.name \in {"height", "render"}

\* the getter that follows width(null) or height(null) gives the default
\* calculation: the side of the element when larger than the minimum, else
\* the minimum
NullRestoresDefault ==
    /\ (lastOp = [name |-> "width", arg |-> Null] /\ lastOp'.name = "width()" /\ ret'.k = "value") =>
          ret'.val = DefaultSize(boundingClientRect.width, minWidth)
    /\ (lastOp = [name |-> "height", arg |-> Null] /\ lastOp'.name = "height()" /\ ret'.k = "value") =>
          ret'.val = DefaultSize(boundingClientRect.height, minHeight)

\* C37 as stated: the cache, the default after null, and after width(n) or
\* height(n) with any number n the getter returns n.
SizeGetterReturnsAnyNumberSet ==
    [][ /\ SizeIsCached
        /\ NullRestoresDefault
        /\ (lastOp.name = "width" /\ lastOp.arg.t = "num" /\ lastOp'.name = "width()" /\ ret'.k = "value") =>
              ret'.val = lastOp.arg
        /\ (lastOp.name = "height" /\ lastOp.arg.t = "num" /\ lastOp'.name = "height()" /\ ret'.k = "value") =>
              ret'.val = lastOp.arg ]_vars

\* C37: the getters run the size calculation at most once and return the
\* cached number until a setter of the same side or render() drops it; after
\* width(n) or height(n) with a number n that is not 0 the getter returns n;
\* after width(0) or height(0), as after null, it returns the default
\* calculation (the side of the element when larger than the minimum, else
\* the minimum).
SizeGetterReturnsNumberSet ==
    [][ /\ SizeIsCached
        /\ NullRestoresDefault
        /\ (lastOp.name = "width" /\ lastOp.arg.t = "num" /\ lastOp'.name = "width()" /\ ret'.k = "value") =>
              ret'.val = IF lastOp.arg.n # 0 THEN lastOp.arg
                         ELSE DefaultSize(boundingClientRect.width, minWidth)
        /\ (lastOp.name = "height" /\ lastOp.arg.t = "num" /\ lastOp'.name = "height()" /\ ret'.k = "value") =>
              ret'.val = IF lastOp.arg.n # 0 THEN lastOp.arg
                         ELSE DefaultSize(boundingClientRect.height, minHeight) ]_vars

\* width() returned the 300 it had cached, without running the default
\* calculator, on an element that has shrunk to 100 since
CachedWidthOutlivedResize ==
    /\ lastOp.name = "width()"
    /\ ret = Ret("value", Num(300), FALSE, NoRef)
    /\ trace = <<>>
    /\ _widthCalc = _defaultWidthCalc
    /\ _width = Num(300)
    /\ boundingClientRect.width = 100

(***************************************************************************)
(* Properties of the whiskers.                                             *)
(***************************************************************************)
\* the indices, counted from 0, of the values not below the lower fence and
\* of those not above the upper fence
AboveLow(b) == { x \in 0..(Len(b.d) - 1) : 2 * b.d[x + 1] >= 2 * b.q1 - b.k2 * (b.q3 - b.q1) }
BelowHigh(b) == { x \in 0..(Len(b.d) - 1) : 2 * b.d[x + 1] <= 2 * b.q3 + b.k2 * (b.q3 - b.q1) }

\* C38 as stated: for every factor k and every sorted array that is not
\* empty, with any quartiles q1 <= q3, the indices [i, j] returned are the
\* smallest index of a value >= q1 - k*(q3-q1) and the largest index of a
\* value <= q3 + k*(q3-q1), both inside the array, and i <= j.
WhiskersInsideAndOrdered ==
    (lastOp.name = "whiskers" /\ box.q1 <= box.q3) =>
        LET i == whiskerIndices[1]
            j == whiskerIndices[2]
        IN /\ i \in AboveLow(box) /\ \A x \in AboveLow(box) : i <= x
           /\ j \in BelowHigh(box) /\ \A x \in BelowHigh(box) : x <= j
           /\ i \in 0..(Len(box.d) - 1)
           /\ j \in 0..(Len(box.d) - 1)
           /\ i <= j

\* C38: for a sorted array that is not empty, with quartiles q1 <= q3, i is
\* the smallest index of a value >= q1 - k*(q3-q1), or the length when there
\* is none, and j the largest index of a value <= q3 + k*(q3-q1), or -1 when
\* there is none; both lie inside the array when k >= 0 and the quartiles lie
\* within the values (d[0] <= q1, q3 <= d[last]); and i <= j exactly when
\* some value lies between the two fences, which is so whenever k >= 0 and a
\* value lies between the quartiles.
WhiskersAreFenceIndices ==
    (lastOp.name = "whiskers" /\ box.q1 <= box.q3) =>
        LET i == whiskerIndices[1]
            j == whiskerIndices[2]
            n == Len(box.d)
        IN /\ IF AboveLow(box) # {}
              THEN i \in AboveLow(box) /\ \A x \in AboveLow(box) : i <= x
              ELSE i = n
           /\ IF BelowHigh(box) # {}
              THEN j \in BelowHigh(box) /\ \A x \in BelowHigh(box) : x <= j
              ELSE j = 0 - 1
           /\ (box.k2 >= 0 /\ box.d[1] <= box.q1 /\ box.q3 <= box.d[n]) =>
                 (i \in 0..(n - 1) /\ j \in 0..(n - 1))
           /\ i <= j <=> AboveLow(box) \cap BelowHigh(box) # {}
           /\ (box.k2 >= 0 /\ \E x \in 1..n : box.q1 <= box.d[x] /\ box.d[x] <= box.q3) => i <= j

\* the two values 0 and 4 with the quartiles 1 and 3 between them and the
\* factor 0: the lower whisker is at index 1 and the upper one at index 0
WhiskersCrossed ==
    /\ lastOp.name = "whiskers"
    /\ box = Box(0, <<0, 4>>, 1, 3)
    /\ whiskerIndices = <<1, 0>>

====
